---- MODULE Spec2Model ----
(***************************************************************************)
(* Zero Friction Brain: note index, keyword prefilter, hybrid related-note *)
(* search, Zettel identifier allocation and the merge/link engine.         *)
(*                                                                         *)
(* Strings are sequences of one-character strings, so that toLowerCase,    *)
(* includes, padStart, parseInt and regular-expression prefixes are        *)
(* computed character by character.  Two tokens abbreviate fixed digit     *)
(* runs: a member of Dates stands for the eight digits YYYYMMDD and "T"    *)
(* for the leading digits of a millisecond timestamp.                      *)
(* Relevance values and the merge threshold are percentages (0.85 = 85).   *)
(***************************************************************************)
EXTENDS Integers, Sequences, FiniteSets, TLC

\* ------------------------------------------------------------------ bounds
MaxCounter == 250
MaxCalls == 1
MaxBatch == 2
MaxDeletes == 1
MaxRestarts == 1
MaxResponse == 2
MaxIndexed == 12
MaxRuns == 2
MaxParsed == 6
MaxCallers == 2
MaxSaves == 1
MaxTopicRuns == 3
MaxTopicNotes == 3
MaxSettingsSaves == 1
MaxOcrRuns == 3
MaxPages == 3
MaxInboxFiles == 2
MaxItems == 2
MaxEvents == 3
MaxTime == 9
DebounceWait == 3
MaxRecentNotes == 12
MaxAdds == 2
MaxLinkCalls == 2
MocGroups == 1
MaxMocCalls == 3
MaxMerges == 2
MaxKeywords == 2
MaxClock == 8000

\* --------------------------------------------------------- program constants
PrefilterLimit == 10
SeqWidth == 3
SeqDigits == 3
ReplaceGroups == 2
TopicGroups == 2
SectionGroups == 1
DEFAULT_DELAY_MS == 1000
MAX_RETRIES == 3
INITIAL_BACKOFF_MS == 2000
MaxDelayMs == 5000
DefaultMergeThreshold == 80
DelayMs == 10
RecentLimit == 10

\* ------------------------------------------------------------ characters
DigitChars == <<"0", "1", "2", "3", "4", "5", "6", "7", "8", "9">>

LowerChars ==
  <<"a", "b", "c", "d", "e", "f", "g", "h", "i", "j", "k", "l", "m",
    "n", "o", "p", "q", "r", "s", "t", "u", "v", "w", "x", "y", "z">>

UpperChars ==
  <<"A", "B", "C", "D", "E", "F", "G", "H", "I", "J", "K", "L", "M",
    "N", "O", "P", "Q", "R", "S", "T", "U", "V", "W", "X", "Y", "Z">>

Range(s) == {s[i] : i \in 1..Len(s)}

IsDigit(c) == c \in Range(DigitChars)

DigitValue(c) == (CHOOSE i \in 1..10 : DigitChars[i] = c) - 1

Reverse(s) == [i \in 1..Len(s) |-> s[Len(s) + 1 - i]]

\* Number.prototype.toString() of a non-negative integer
RECURSIVE NumToString(_)
NumToString(n) ==
  IF n < 10 THEN <<DigitChars[n + 1]>>
  ELSE NumToString(n \div 10) \o <<DigitChars[(n % 10) + 1]>>

\* String.prototype.padStart(width, "0"): never truncates
RECURSIVE PadStart(_, _)
PadStart(s, width) ==
  IF Len(s) >= width THEN s ELSE PadStart(<<"0">> \o s, width)

\* parseInt(s, 10) of a string of digits
RECURSIVE ParseInt(_)
ParseInt(s) ==
  IF s = <<>> THEN 0
  ELSE 10 * ParseInt(SubSeq(s, 1, Len(s) - 1)) + DigitValue(s[Len(s)])

\* String.prototype.toLowerCase()
LowerChar(c) ==
  IF \E i \in 1..26 : UpperChars[i] = c
  THEN LowerChars[CHOOSE i \in 1..26 : UpperChars[i] = c]
  ELSE c

toLowerCase(s) == [i \in 1..Len(s) |-> LowerChar(s[i])]

\* String.prototype.includes(): b occurs in a as a contiguous substring
includes(a, b) ==
  \E i \in 0..(Len(a) - Len(b)) : SubSeq(a, i + 1, i + Len(b)) = b

\* ------------------------------------------------------- toLuhmannId
RECURSIVE LuhmannLoop(_, _, _)
LuhmannLoop(remaining, level, result) ==
  IF remaining > 0
  THEN IF level % 2 = 0
       THEN LuhmannLoop((remaining - 1) \div 9, level + 1,
                        Append(result, NumToString(((remaining - 1) % 9) + 1)[1]))
       ELSE LuhmannLoop((remaining - 1) \div 26, level + 1,
                        Append(result, LowerChars[((remaining - 1) % 26) + 1]))
  ELSE result

toLuhmannId_FirstLevelOnly(num) ==
  IF num <= 0 THEN <<"1">>
  ELSE <<NumToString(((num - 1) % 9) + 1)[1]>>

toLuhmannId(num) ==
  IF num <= 0 THEN <<"1">>
  ELSE Reverse(LuhmannLoop(num, 0, <<>>))

\* ------------------------------------------------------------- keywords
KwSensor == <<"s", "e", "n", "s", "o", "r">>
KwSensorCap == <<"S", "e", "n", "s", "o", "r">>
KwSensors == <<"s", "e", "n", "s", "o", "r", "s">>
KwSens == <<"s", "e", "n", "s">>
KwIoT == <<"I", "o", "T">>
KwIoTron == <<"I", "o", "T", "r", "o", "n">>
KwMqtt == <<"m", "q", "t", "t">>

\* ------------------------------------------------------------ state
VARIABLES
  vault,            \* the document store: sequence of files, in creation order
  index,            \* RelatedNoteFinder.index: Map path -> NoteIndex, in insertion order
  settings,         \* zkIdType, zkMergeThreshold
  zkDailyCounter,   \* Map date -> highest sequence used
  zkLuhmannCounter, \* Luhmann counter
  today,            \* the calendar date new Date() gives
  now,              \* Date.now(), as an offset in milliseconds
  restarts,         \* plugin loads so far
  deletes,          \* documents the user has deleted so far
  calls,            \* createZKNotes invocations so far
  allocated,        \* identifiers generateZKId returned since the plugin was loaded
  loadHigh,         \* per date, the highest sequence among the Zettel notes at load
  fr_pc,            \* findRelated / findRelatedZettels: position
  fr_kind,          \* "all" (findRelated) or "zettel" (findRelatedZettels)
  fr_caller,        \* who awaits the search
  fr_keywords,      \* the query keywords
  fr_exclude,       \* excludePath, <<>> when absent
  fr_candidates,    \* the Prefilter's result
  fr_results,       \* the RelatedNote list returned
  fr_trace,         \* the stages run by the current search, in order
  pf_called,        \* Prefilter harness: the call made
  pf_result,        \* Prefilter harness: what it returned
  cz_pc,            \* createZKNotes: position
  cz_queue,         \* createZKNotes: the candidates not yet finished, current first
  cz_high,          \* highSimilarNote, NoNote when there is none
  cz_shouldMerge,   \* the decision the merge dialog resolved with
  cz_zkId,          \* zkId of the current candidate, <<>> before generateZKId
  cz_fileName,      \* fileName of the current candidate
  cz_related,       \* relatedZettels of the current candidate
  cz_k,             \* addBacklinksToZettels: position in relatedNotes
  createdNotes,     \* titles created by the current invocation
  mergedNotes,      \* titles merged by the current invocation
  linkedCount,      \* links counted by the current invocation
  lh_n,             \* toLuhmannId harness: first counter
  lh_m,             \* toLuhmannId harness: second counter
  lh_ids,           \* toLuhmannId harness: the identifiers returned
  bl_new,           \* backlink harness: basename of the new note
  bl_related,       \* backlink harness: the related notes
  bl_runs,          \* backlink harness: runs of addBacklinksToZettels so far
  ps_input,         \* parse harness: the JSON array of the classifier's answer
  ps_output,        \* parse harness: what parseRelatedNotesResponse returned
  ps_done,          \* parse harness: the call has been made
  gw_clock,         \* gateway: Date.now(), in milliseconds
  gw_lastRequestTime,\* GeminiClient.lastRequestTime
  gw_minDelayMs,    \* GeminiClient.minDelayMs
  gw_pc,            \* gateway: per caller, the position inside callWithRetry
  gw_wake,          \* gateway: per caller, when the pending setTimeout fires
  gw_attempt,       \* gateway: per caller, the loop variable attempt
  gw_error,         \* gateway: per caller, the error the last API call threw
  gw_budget,        \* gateway: per caller, calls still to be made
  gw_prevStart,     \* gateway: start time of the latest API request, -1 before the first
  gw_invocations,   \* gateway: per caller, API invocations of the current call
  sv_saves,         \* saveKeywordsToNote calls so far
  mg_doc,           \* frontmatter keywords of the merge target
  mg_prev,          \* keyword list of the target before the last merge
  mg_cand,          \* keywords of the candidate merged last
  mg_prevCand,      \* keywords of the candidate merged before that
  mg_runs,          \* merges so far
  rb_done,          \* buildIndex has run
  mc_docs,          \* the project hub documents of the store, in creation order
  mc_registry,      \* MOCManager.projectMOCs: Map project -> ProjectMOC
  mc_result,        \* what the last createProjectMOC returned
  mc_held,          \* the registry held the project when the last createProjectMOC began
  mc_calls,         \* scanProjectMOCs and createProjectMOC calls so far
  ml_hub,           \* the hub document addNoteToMOC writes to
  ml_known,         \* the registry holds the project
  ml_note,          \* base name of the note to link
  ml_wrote,         \* per addNoteToMOC call: vault.modify was called
  ml_returns,       \* per addNoteToMOC call: the value returned
  rc_file,          \* the Structure Index document
  rc_prev,          \* its recent entries before the last update
  rc_last,          \* base name of the note added last
  rc_adds,          \* Structure Index updates so far
  db_clock,         \* the time, in seconds
  db_pending,       \* pendingFiles: Map path -> time stamp, in insertion order
  db_timer,         \* the deadline of the debounce timer, -1 when it is not set
  db_passes,        \* the processPendingFiles invocations: state, now, path in hand
  db_inbox,         \* the paths that are still documents of the inbox
  db_lastEvent,     \* per path the time of its latest change event, -1 for none
  db_classified,    \* the classifications made: path and time
  db_events,        \* change events of the user so far
  rs_op,            \* the gateway operation whose answer is parsed
  rs_text,          \* the classifier output
  rs_raised,        \* the parser has thrown
  rs_value,         \* the value the parser has returned
  rs_done,          \* the parser has run
  oc_limit,         \* settings.ocrDailyLimit
  oc_used,          \* dailyUsage.pagesProcessed of the OCRProcessor
  oc_today,         \* pages OCR-processed today by any OCRProcessor
  oc_runs,          \* OCR commands and settings saves so far
  ig_pc,            \* initGemini: idle, or the step its promise chain has reached
  ig_saves,         \* settings saves so far
  tp_exists,        \* the Structure Index document exists
  tp_recent,        \* its recent section, as a document record
  tp_topics,        \* its topic section: headings with their links, top to bottom
  tp_note,          \* base name of the note of the last updateIndex
  tp_keywords,      \* keywords of the last updateIndex
  tp_runs           \* calls of updateIndex so far

storeVars == <<vault, index>>
allocVars == <<settings, zkDailyCounter, zkLuhmannCounter, today, now>>
envVars == <<restarts, deletes, calls, allocated, loadHigh>>
searchVars == <<fr_pc, fr_kind, fr_caller, fr_keywords, fr_exclude, fr_candidates,
                fr_results, fr_trace>>
prefilterVars == <<pf_called, pf_result>>
createVars == <<cz_pc, cz_queue, cz_high, cz_shouldMerge, cz_zkId, cz_fileName,
                cz_related, cz_k, createdNotes, mergedNotes, linkedCount>>
luhmannVars == <<lh_n, lh_m, lh_ids>>
backlinkVars == <<bl_new, bl_related, bl_runs>>
parseVars == <<ps_input, ps_output, ps_done>>
gatewayVars == <<gw_clock, gw_lastRequestTime, gw_minDelayMs, gw_pc, gw_wake, gw_attempt, gw_error, gw_budget, gw_prevStart, gw_invocations>>
saveVars == <<sv_saves>>
mergeVars == <<mg_doc, mg_prev, mg_cand, mg_prevCand, mg_runs>>
rebuildVars == <<rb_done>>
mocVars == <<mc_docs, mc_registry, mc_result, mc_held, mc_calls>>
linkVars == <<ml_hub, ml_known, ml_note, ml_wrote, ml_returns>>
recentVars == <<rc_file, rc_prev, rc_last, rc_adds>>
debounceVars == <<db_clock, db_pending, db_timer, db_passes, db_inbox, db_lastEvent, db_classified, db_events>>
responseVars == <<rs_op, rs_text, rs_raised, rs_value, rs_done>>
ocrVars == <<oc_limit, oc_used, oc_today, oc_runs>>
seedingVars == <<ig_pc, ig_saves>>
topicVars == <<tp_exists, tp_recent, tp_topics, tp_note, tp_keywords, tp_runs>>
harnessVars == <<luhmannVars, backlinkVars,
                parseVars,
                gatewayVars,
                saveVars,
                mergeVars,
                rebuildVars,
                mocVars,
                linkVars,
                recentVars,
                debounceVars,
                responseVars,
                ocrVars,
                seedingVars,
                topicVars>>

NoPath == <<>>

\* ------------------------------------------------------------ Note Index
\* cache?.frontmatter: what the metadata cache holds of a document; a
\* frontmatter that is absent or cannot be parsed gives undefined
FrontmatterStates == {"parsed", "malformed", "absent"}

\* indexNote: the record derived from a document's frontmatter; without one
\* the keywords are [] and the type is undefined
indexNote(file) ==
  IF file.frontmatter = "parsed"
  THEN [path |-> file.path, title |-> file.path, keywords |-> file.keywords,
        type |-> file.type]
  ELSE [path |-> file.path, title |-> file.path, keywords |-> <<>>, type |-> "none"]

\* Map.set: an existing key keeps its position, a new key is appended
MapSet(idx, rec) ==
  IF \E i \in 1..Len(idx) : idx[i].path = rec.path
  THEN [i \in 1..Len(idx) |-> IF idx[i].path = rec.path THEN rec ELSE idx[i]]
  ELSE Append(idx, rec)

\* buildIndex: clear, then index every markdown file of the vault
RECURSIVE BuildFrom_SkipUnparsed(_, _)
BuildFrom_SkipUnparsed(files, idx) ==
  IF files = <<>> THEN idx
  ELSE BuildFrom_SkipUnparsed(Tail(files),
         IF Head(files).frontmatter = "parsed"
         THEN MapSet(idx, indexNote(Head(files)))
         ELSE idx)

RECURSIVE BuildFrom(_, _)
BuildFrom(files, idx) ==
  IF files = <<>> THEN idx
  ELSE BuildFrom(Tail(files), MapSet(idx, indexNote(Head(files))))

buildIndex(files) == BuildFrom(files, <<>>)

IsZettel(note) == note.type = "zettel"

getZettelIndex(idx) == SelectSeq(idx, IsZettel)

\* ------------------------------------------------------ Keyword Prefilter
KeywordSet(keywords) == {toLowerCase(keywords[i]) : i \in 1..Len(keywords)}

KeywordMatches(noteKeyword, keywordSet) ==
  LET lowerKeyword == toLowerCase(noteKeyword)
  IN \E searchKeyword \in keywordSet :
       \/ lowerKeyword = searchKeyword
       \/ includes(lowerKeyword, searchKeyword)
       \/ includes(searchKeyword, lowerKeyword)

MatchedKeywords(note, keywordSet) ==
  LET Hit(k) == KeywordMatches(k, keywordSet)
  IN SelectSeq(note.keywords, Hit)

\* the loop over the map: one candidate per record that passes the three tests
RECURSIVE CollectCandidates(_, _, _, _)
CollectCandidates(idx, keywordSet, excludePath, acc) ==
  IF idx = <<>> THEN acc
  ELSE LET note == Head(idx)
           matched == MatchedKeywords(note, keywordSet)
           skip == \/ (excludePath # NoPath /\ note.path = excludePath)
                   \/ Len(note.keywords) = 0
                   \/ Len(matched) = 0
       IN CollectCandidates(Tail(idx), keywordSet, excludePath,
            IF skip THEN acc
            ELSE Append(acc, [note |-> note, matchedKeywords |-> matched]))

\* Array.prototype.sort with (a, b) => b.matched - a.matched: stable, descending
RECURSIVE InsertByMatches(_, _)
InsertByMatches(sorted, c) ==
  IF sorted = <<>> THEN <<c>>
  ELSE IF Len(Head(sorted).matchedKeywords) >= Len(c.matchedKeywords)
       THEN <<Head(sorted)>> \o InsertByMatches(Tail(sorted), c)
       ELSE <<c>> \o sorted

RECURSIVE SortByMatches(_, _)
SortByMatches(cands, acc) ==
  IF cands = <<>> THEN acc
  ELSE SortByMatches(Tail(cands), InsertByMatches(acc, Head(cands)))

\* Array.prototype.slice(0, n)
SliceTo(s, n) == SubSeq(s, 1, IF Len(s) < n THEN Len(s) ELSE n)

filterByKeywords_NoSlice(idx, keywords, excludePath) ==
  SortByMatches(CollectCandidates(idx, KeywordSet(keywords), excludePath, <<>>), <<>>)

filterByKeywords_IgnoreExclude(idx, keywords, excludePath) ==
  SliceTo(SortByMatches(CollectCandidates(idx, KeywordSet(keywords), NoPath, <<>>),
                        <<>>), PrefilterLimit)

filterByKeywords(idx, keywords, excludePath) ==
  SliceTo(SortByMatches(CollectCandidates(idx, KeywordSet(keywords), excludePath, <<>>),
                        <<>>), PrefilterLimit)

filterZettelsByKeywords(keywords, zettelIndex, excludePath) ==
  SliceTo(SortByMatches(CollectCandidates(zettelIndex, KeywordSet(keywords),
                                          excludePath, <<>>), <<>>), PrefilterLimit)

\* ----------------------------------------------- Content Classifier Gateway
MinRelevance == 50
MaxRelated == 5

\* an index the classifier gives is any JSON number: index + fraction / 10,
\* index its integer part (the floor), fraction its first decimal
AiIndexValues == {-1, 0, 1, 7}
AiFractions == {0, 5}
AiRelevanceValues == {40, 80, 90}
AiItems == [index : AiIndexValues, fraction : AiFractions, relevance : AiRelevanceValues]

\* the classifier's answers: every list of at most MaxResponse items
AiResponses == UNION {[1..n -> AiItems] : n \in 0..MaxResponse}

\* the answers given to the searches of createZKNotes: a single item, or items
\* for the candidates in order with rising relevance (so that sorting matters)
ZkResponses ==
  { r \in AiResponses :
      IF Len(r) >= 2
      THEN \A i \in 1..Len(r) :
             /\ r[i].index = i - 1
             /\ r[i].fraction = 0
             /\ \A j \in 1..(i - 1) : r[j].relevance < r[i].relevance
      ELSE TRUE }

RECURSIVE InsertByRelevance(_, _)
InsertByRelevance(sorted, r) ==
  IF sorted = <<>> THEN <<r>>
  ELSE IF Head(sorted).relevance >= r.relevance
       THEN <<Head(sorted)>> \o InsertByRelevance(Tail(sorted), r)
       ELSE <<r>> \o sorted

RECURSIVE SortByRelevance(_, _)
SortByRelevance(items, acc) ==
  IF items = <<>> THEN acc
  ELSE SortByRelevance(Tail(items), InsertByRelevance(acc, Head(items)))

parseRelatedNotesResponse_Unsorted(parsed) ==
  LET Relevant(item) == item.relevance >= MinRelevance
  IN SliceTo(SelectSeq(parsed, Relevant), MaxRelated)

\* filter (relevance >= 0.5), sort descending, slice(0, 5)
parseRelatedNotesResponse(parsed) ==
  LET Relevant(item) == item.relevance >= MinRelevance
  IN SliceTo(SortByRelevance(SelectSeq(parsed, Relevant), <<>>), MaxRelated)

\* ------------------------------------------------- Hybrid Related-Note Search
\* the loop that turns the classifier's results into RelatedNote records
\* A number below 0 or not below candidates.length is skipped; a number inside
\* the range that is no integer passes the test, candidates[result.index] is
\* undefined and reading its note throws a TypeError.
RECURSIVE MapIndices(_, _, _)
MapIndices(aiResults, candidates, results) ==
  IF aiResults = <<>> THEN [threw |-> FALSE, results |-> results]
  ELSE LET result == Head(aiResults)
       IN IF result.index >= 0 /\ result.index < Len(candidates)
          THEN IF result.fraction # 0
               THEN [threw |-> TRUE, results |-> results]
               ELSE MapIndices(Tail(aiResults), candidates,
                      Append(results,
                        [note |-> candidates[result.index + 1].note,
                         relevance |-> result.relevance,
                         matchedKeywords |->
                           candidates[result.index + 1].matchedKeywords]))
          ELSE MapIndices(Tail(aiResults), candidates, results)

\* findRelatedZettels up to its first suspension: the empty-keyword and
\* empty-population returns, the Prefilter, and the classifier request
StartFindRelatedZettels(idx, keywords, excludePath, caller) ==
  LET zettelIndex == getZettelIndex(idx)
      candidates == filterZettelsByKeywords(keywords, zettelIndex, excludePath)
  IN /\ fr_kind' = "zettel"
     /\ fr_caller' = caller
     /\ fr_keywords' = keywords
     /\ fr_exclude' = excludePath
     /\ fr_results' = <<>>
     /\ IF Len(keywords) = 0 \/ Len(zettelIndex) = 0
        THEN fr_pc' = "done" /\ fr_candidates' = <<>> /\ fr_trace' = <<>>
        ELSE IF Len(candidates) = 0
        THEN /\ fr_pc' = "done"
             /\ fr_candidates' = candidates
             /\ fr_trace' = <<"prefilter">>
        ELSE /\ fr_pc' = "scoring"
             /\ fr_candidates' = candidates
             /\ fr_trace' = <<"prefilter", "scoreRelatedness">>

\* findRelated up to its first suspension: the keyword extraction request
FR_FindRelated(excludePath) ==
  /\ fr_pc = "idle"
  /\ fr_pc' = "extracting"
  /\ fr_kind' = "all"
  /\ fr_caller' = "user"
  /\ fr_keywords' = <<>>
  /\ fr_exclude' = excludePath
  /\ fr_candidates' = <<>>
  /\ fr_results' = <<>>
  /\ fr_trace' = <<"extractKeywords">>

FR_KeywordsExtracted_AlwaysScore(keywords) ==
  /\ fr_pc = "extracting"
  /\ fr_keywords' = keywords
  /\ fr_pc' = "scoring"
  /\ fr_candidates' = filterByKeywords(index, keywords, fr_exclude)
  /\ fr_trace' = fr_trace \o <<"prefilter", "scoreRelatedness">>
  /\ UNCHANGED <<fr_kind, fr_caller, fr_exclude, fr_results>>

\* findRelated, from the extracted keywords to the classifier request
FR_KeywordsExtracted(keywords) ==
  LET candidates == filterByKeywords(index, keywords, fr_exclude)
  IN /\ fr_pc = "extracting"
     /\ fr_keywords' = keywords
     /\ IF Len(keywords) = 0
        THEN fr_pc' = "done" /\ fr_candidates' = <<>> /\ fr_trace' = fr_trace
        ELSE IF Len(candidates) = 0
        THEN /\ fr_pc' = "done"
             /\ fr_candidates' = candidates
             /\ fr_trace' = Append(fr_trace, "prefilter")
        ELSE /\ fr_pc' = "scoring"
             /\ fr_candidates' = candidates
             /\ fr_trace' = fr_trace \o <<"prefilter", "scoreRelatedness">>
     /\ UNCHANGED <<fr_kind, fr_caller, fr_exclude, fr_results>>

FR_FindRelatedZettels(keywords, excludePath) ==
  /\ fr_pc = "idle"
  /\ StartFindRelatedZettels(index, keywords, excludePath, "user")

\* the classifier's answer arrives: parse it, map indices to records, return
FR_Scored(parsed) ==
  LET mapped == MapIndices(parseRelatedNotesResponse(parsed), fr_candidates, <<>>)
  IN
  /\ fr_pc = "scoring"
  /\ fr_pc' = IF mapped.threw THEN "failed" ELSE "done"
  /\ fr_results' = IF mapped.threw THEN <<>> ELSE mapped.results
  /\ fr_trace' = Append(fr_trace, "mapIndices")
  /\ UNCHANGED <<fr_kind, fr_caller, fr_keywords, fr_exclude, fr_candidates>>

\* a gateway call fails (retries exhausted): the search throws
FR_Failed ==
  /\ fr_pc \in {"extracting", "scoring"}
  /\ fr_pc' = "failed"
  /\ UNCHANGED <<fr_kind, fr_caller, fr_keywords, fr_exclude, fr_candidates,
                 fr_results, fr_trace>>

\* the caller of a stand-alone search takes the result (or the error)
FR_Return ==
  /\ fr_pc \in {"done", "failed"}
  /\ fr_caller = "user"
  /\ fr_pc' = "idle"
  /\ UNCHANGED <<fr_kind, fr_caller, fr_keywords, fr_exclude, fr_candidates,
                 fr_results, fr_trace>>

\* --------------------------------------------------------- initial values
File(path, type, keywords) ==
  [path |-> path, type |-> type, keywords |-> keywords, frontmatter |-> "parsed",
   section |-> TRUE, links |-> <<>>, additions |-> <<>>]

Date1 == "20260102"
Date2 == "20260103"
Dates == <<Date1, Date2>>

InitAlloc ==
  /\ settings = [zkIdType |-> "date-sequence", zkMergeThreshold |-> DefaultMergeThreshold]
  /\ zkDailyCounter = [d \in Range(Dates) |-> 0]
  /\ zkLuhmannCounter = 0
  /\ today = Date1
  /\ now = 0
  /\ restarts = 0
  /\ deletes = 0
  /\ calls = 0
  /\ allocated = <<>>
  /\ loadHigh = [d \in Range(Dates) |-> 0]

InitSearch ==
  /\ fr_pc = "idle"
  /\ fr_kind = "all"
  /\ fr_caller = "user"
  /\ fr_keywords = <<>>
  /\ fr_exclude = NoPath
  /\ fr_candidates = <<>>
  /\ fr_results = <<>>
  /\ fr_trace = <<>>

NoCall == [kind |-> "none", keywords |-> <<>>, excludePath |-> NoPath]

InitPrefilterHarness ==
  /\ pf_called = NoCall
  /\ pf_result = <<>>

\* -------------------------------------------------- Prefilter: fixture
LibPath(i) == <<"n">> \o PadStart(NumToString(i), 2)

Library ==
  << File(LibPath(1), "zettel", <<KwSensor>>),
     File(LibPath(2), "zettel", <<KwSensorCap, KwIoT>>),
     File(LibPath(3), "zettel", <<KwSensors>>),
     File(LibPath(4), "zettel", <<KwSens>>),
     File(LibPath(5), "zettel", <<KwIoT, KwSensor, KwMqtt>>),
     File(LibPath(6), "zettel", <<>>),
     File(LibPath(7), "none", <<KwSensor>>),
     File(LibPath(8), "none", <<KwMqtt>>),
     File(LibPath(9), "zettel", <<KwIoTron, KwSensor>>),
     File(LibPath(10), "zettel", <<KwSensor>>),
     File(LibPath(11), "zettel", <<KwMqtt, KwSensorCap>>),
     File(LibPath(12), "zettel", <<KwSensor, KwSens>>),
     File(LibPath(13), "zettel", <<KwSensors, KwIoTron, KwMqtt>>) >>

\* the documents of Library whose position is in S, in Library order
LibraryFiles(S) ==
  LET Chosen(f) == \E i \in S : Library[i].path = f.path
  IN SelectSeq(Library, Chosen)

Queries == {<<>>, <<KwSensor>>, <<KwIoT, KwSensorCap>>, <<KwMqtt>>}
ExcludePaths == {NoPath, LibPath(1)}

NoNote == [note |-> [path |-> NoPath, title |-> NoPath, keywords |-> <<>>,
                     type |-> "none"],
           relevance |-> 0, matchedKeywords |-> <<>>]

InitCreate ==
  /\ cz_pc = "idle"
  /\ cz_queue = <<>>
  /\ cz_high = NoNote
  /\ cz_shouldMerge = FALSE
  /\ cz_zkId = <<>>
  /\ cz_fileName = NoPath
  /\ cz_related = <<>>
  /\ cz_k = 0
  /\ createdNotes = <<>>
  /\ mergedNotes = <<>>
  /\ linkedCount = 0

InitLuhmannHarness ==
  /\ lh_n = 0
  /\ lh_m = 0
  /\ lh_ids = <<>>

InitBacklinkHarness ==
  /\ bl_new = NoPath
  /\ bl_related = <<>>
  /\ bl_runs = 0

InitParseHarness ==
  /\ ps_input = <<>>
  /\ ps_output = <<>>
  /\ ps_done = FALSE

InitGatewayHarness ==
  /\ gw_clock = 0
  /\ gw_lastRequestTime = 0
  /\ gw_minDelayMs = 0
  /\ gw_pc = <<>>
  /\ gw_wake = <<>>
  /\ gw_attempt = <<>>
  /\ gw_error = <<>>
  /\ gw_budget = <<>>
  /\ gw_prevStart = -1
  /\ gw_invocations = <<>>

InitSaveHarness ==
  /\ sv_saves = 0

InitMergeHarness ==
  /\ mg_doc = [style |-> "flow", text |-> <<>>, items |-> <<>>]
  /\ mg_prev = <<>>
  /\ mg_cand = <<>>
  /\ mg_prevCand = <<>>
  /\ mg_runs = 0

InitRebuildHarness ==
  /\ rb_done = FALSE

InitMocHarness ==
  /\ mc_docs = <<>>
  /\ mc_registry = <<>>
  /\ mc_result = "none"
  /\ mc_held = FALSE
  /\ mc_calls = 0

InitLinkHarness ==
  /\ ml_hub = [exists |-> FALSE, section |-> "none", links |-> <<>>]
  /\ ml_known = FALSE
  /\ ml_note = <<>>
  /\ ml_wrote = <<>>
  /\ ml_returns = <<>>

InitRecentHarness ==
  /\ rc_file = [section |-> TRUE, links |-> <<>>]
  /\ rc_prev = <<>>
  /\ rc_last = <<>>
  /\ rc_adds = 0

InitDebounceHarness ==
  /\ db_clock = 0
  /\ db_pending = <<>>
  /\ db_timer = -1
  /\ db_passes = <<>>
  /\ db_inbox = {}
  /\ db_lastEvent = <<>>
  /\ db_classified = <<>>
  /\ db_events = 0

InitResponseHarness ==
  /\ rs_op = "none"
  /\ rs_text = [kind |-> "prose", items |-> <<>>]
  /\ rs_raised = FALSE
  /\ rs_value = <<>>
  /\ rs_done = FALSE

InitOcrHarness ==
  /\ oc_limit = 0
  /\ oc_used = 0
  /\ oc_today = 0
  /\ oc_runs = 0

InitSeedingHarness ==
  /\ ig_pc = "idle"
  /\ ig_saves = 0

InitTopicHarness ==
  /\ tp_exists = FALSE
  /\ tp_recent = [section |-> TRUE, links |-> <<>>]
  /\ tp_topics = <<>>
  /\ tp_note = <<>>
  /\ tp_keywords = <<>>
  /\ tp_runs = 0

\* the variables of the function harnesses other than the active one: at rest
InitHarnesses(active) ==
  /\ IF active = "luhmann" THEN TRUE ELSE InitLuhmannHarness
  /\ IF active = "backlink" THEN TRUE ELSE InitBacklinkHarness
  /\ IF active = "parse" THEN TRUE ELSE InitParseHarness
  /\ IF active = "gateway" THEN TRUE ELSE InitGatewayHarness
  /\ IF active = "save" THEN TRUE ELSE InitSaveHarness
  /\ IF active = "merge" THEN TRUE ELSE InitMergeHarness
  /\ IF active = "rebuild" THEN TRUE ELSE InitRebuildHarness
  /\ IF active = "moc" THEN TRUE ELSE InitMocHarness
  /\ IF active = "link" THEN TRUE ELSE InitLinkHarness
  /\ IF active = "recent" THEN TRUE ELSE InitRecentHarness
  /\ IF active = "debounce" THEN TRUE ELSE InitDebounceHarness
  /\ IF active = "response" THEN TRUE ELSE InitResponseHarness
  /\ IF active = "ocr" THEN TRUE ELSE InitOcrHarness
  /\ IF active = "seeding" THEN TRUE ELSE InitSeedingHarness
  /\ IF active = "topic" THEN TRUE ELSE InitTopicHarness

HarnessesUnchanged(active) ==
  /\ IF active = "luhmann" THEN TRUE ELSE UNCHANGED luhmannVars
  /\ IF active = "backlink" THEN TRUE ELSE UNCHANGED backlinkVars
  /\ IF active = "parse" THEN TRUE ELSE UNCHANGED parseVars
  /\ IF active = "gateway" THEN TRUE ELSE UNCHANGED gatewayVars
  /\ IF active = "save" THEN TRUE ELSE UNCHANGED saveVars
  /\ IF active = "merge" THEN TRUE ELSE UNCHANGED mergeVars
  /\ IF active = "rebuild" THEN TRUE ELSE UNCHANGED rebuildVars
  /\ IF active = "moc" THEN TRUE ELSE UNCHANGED mocVars
  /\ IF active = "link" THEN TRUE ELSE UNCHANGED linkVars
  /\ IF active = "recent" THEN TRUE ELSE UNCHANGED recentVars
  /\ IF active = "debounce" THEN TRUE ELSE UNCHANGED debounceVars
  /\ IF active = "response" THEN TRUE ELSE UNCHANGED responseVars
  /\ IF active = "ocr" THEN TRUE ELSE UNCHANGED ocrVars
  /\ IF active = "seeding" THEN TRUE ELSE UNCHANGED seedingVars
  /\ IF active = "topic" THEN TRUE ELSE UNCHANGED topicVars

InitPrefilter ==
  /\ InitCreate
  /\ InitHarnesses("none")
  /\ \E S \in SUBSET (1..Len(Library)) :
       /\ Cardinality(S) <= MaxIndexed
       /\ vault = LibraryFiles(S)
  /\ index = buildIndex(vault)
  /\ InitAlloc
  /\ InitSearch
  /\ InitPrefilterHarness

\* one call of the Prefilter on the current index
PrefilterCall(kind, keywords, excludePath) ==
  /\ pf_called = NoCall
  /\ pf_called' = [kind |-> kind, keywords |-> keywords, excludePath |-> excludePath]
  /\ pf_result' =
       IF kind = "all"
       THEN filterByKeywords(index, keywords, excludePath)
       ELSE filterZettelsByKeywords(keywords, getZettelIndex(index), excludePath)
  /\ UNCHANGED <<storeVars, allocVars, envVars, searchVars, createVars, harnessVars>>

NextPrefilter ==
  \E kind \in {"all", "zettel"}, keywords \in Queries, excludePath \in ExcludePaths :
    PrefilterCall(kind, keywords, excludePath)

vars == <<storeVars, allocVars, envVars, searchVars, prefilterVars, createVars,
          harnessVars>>

SpecPrefilter == InitPrefilter /\ [][NextPrefilter]_vars

\* ------------------------------------------------------------ documents
ForbiddenChars == {"\\", "/", ":", "*", "?", "\"", "<", ">", "|", "#", "[", "]"}

\* sanitizeFileName: the character replacement (the titles of the model hold no
\* white space and are shorter than maxLength)
sanitizeFileName(name) ==
  [i \in 1..Len(name) |-> IF name[i] \in ForbiddenChars THEN "_" ELSE name[i]]

\* What String.prototype.replace(regex, replacement) makes of text that stands
\* inside the replacement string: "$$" becomes "$", and "$&", "$`", "$'", "$n"
\* and "$0n" (n a group of the regex) are replaced by matched text, written
\* here as one token.
RECURSIVE ExpandGroups(_, _)
ExpandGroups(s, groups) ==
  IF s = <<>> THEN <<>>
  ELSE IF s[1] = "$" /\ Len(s) >= 2
  THEN IF s[2] = "$"
       THEN <<"$">> \o ExpandGroups(SubSeq(s, 3, Len(s)), groups)
       ELSE IF s[2] \in {"&", "`", "'"}
       THEN <<"<match>">> \o ExpandGroups(SubSeq(s, 3, Len(s)), groups)
       ELSE IF IsDigit(s[2]) /\ DigitValue(s[2]) \in 1..groups
       THEN <<"<group>">> \o ExpandGroups(SubSeq(s, 3, Len(s)), groups)
       ELSE IF /\ s[2] = "0"
               /\ Len(s) >= 3
               /\ IsDigit(s[3])
               /\ DigitValue(s[3]) \in 1..groups
       THEN <<"<group>">> \o ExpandGroups(SubSeq(s, 4, Len(s)), groups)
       ELSE <<"$">> \o ExpandGroups(Tail(s), groups)
  ELSE <<s[1]>> \o ExpandGroups(Tail(s), groups)

\* the replacements of addBacklinksToZettels and the Structure Index: two groups
ExpandReplacement(s) == ExpandGroups(s, ReplaceGroups)

Exists(files, path) == \E i \in 1..Len(files) : files[i].path = path

FileAt(files, path) == files[CHOOSE i \in 1..Len(files) : files[i].path = path]

\* vault.modify
Modify(files, file) ==
  [i \in 1..Len(files) |-> IF files[i].path = file.path THEN file ELSE files[i]]

\* vault.delete
Remove(files, path) ==
  LET Other(f) == f.path # path
  IN SelectSeq(files, Other)

HasLinkTo(file, name) == \E i \in 1..Len(file.links) : file.links[i] = name

\* one link line added to the "linked notes" section: through the regex
\* replacement when the section exists, by concatenation when it does not
AppendLink(file, name) ==
  IF file.section
  THEN [file EXCEPT !.links = Append(@, ExpandReplacement(name))]
  ELSE [file EXCEPT !.links = Append(@, name), !.section = TRUE]

\* addZKRelatedLinks: one link per related note, in the new note's document
RECURSIVE AppendLinks(_, _)
AppendLinks(file, relatedNotes) ==
  IF relatedNotes = <<>> THEN file
  ELSE AppendLinks(AppendLink(file, Head(relatedNotes).note.path), Tail(relatedNotes))

addZKRelatedLinks(files, fileName, relatedNotes) ==
  IF relatedNotes = <<>> THEN files
  ELSE LET file == FileAt(files, fileName)
       IN Modify(files,
            IF file.section
            THEN AppendLinks(file, relatedNotes)
            ELSE [file EXCEPT
                    !.links = @ \o [i \in 1..Len(relatedNotes) |->
                                      relatedNotes[i].note.path],
                    !.section = TRUE])

\* addBacklinksToZettels: one iteration of the loop
BacklinkOne(files, newNote, related) ==
  IF ~Exists(files, related.note.path) THEN files
  ELSE LET file == FileAt(files, related.note.path)
       IN IF HasLinkTo(file, newNote) THEN files
          ELSE Modify(files, AppendLink(file, newNote))

\* addBacklinksToZettels: the whole loop
RECURSIVE addBacklinksToZettels(_, _, _)
addBacklinksToZettels(files, newNote, relatedNotes) ==
  IF relatedNotes = <<>> THEN files
  ELSE addBacklinksToZettels(BacklinkOne(files, newNote, Head(relatedNotes)),
                             newNote, Tail(relatedNotes))

\* [...new Set([...a])]: first occurrences, in order
RECURSIVE Dedupe(_, _)
Dedupe(s, acc) ==
  IF s = <<>> THEN acc
  ELSE Dedupe(Tail(s), IF Head(s) \in Range(acc) THEN acc ELSE Append(acc, Head(s)))

\* Array.prototype.join(", ")
RECURSIVE JoinKeywords(_)
JoinKeywords(keywords) ==
  IF keywords = <<>> THEN <<>>
  ELSE IF Len(keywords) = 1 THEN keywords[1]
  ELSE keywords[1] \o <<",", " ">> \o JoinKeywords(Tail(keywords))

\* String.prototype.split(","): the pieces of text between the commas
RECURSIVE SplitComma(_, _)
SplitComma(text, piece) ==
  IF text = <<>> THEN <<piece>>
  ELSE IF Head(text) = "," THEN <<piece>> \o SplitComma(Tail(text), <<>>)
  ELSE SplitComma(Tail(text), Append(piece, Head(text)))

\* String.prototype.trim
RECURSIVE Trim(_)
Trim(s) ==
  IF s = <<>> THEN s
  ELSE IF s[1] = " " THEN Trim(Tail(s))
  ELSE IF s[Len(s)] = " " THEN Trim(SubSeq(s, 1, Len(s) - 1))
  ELSE s

QuoteChars == {"\"", "'"}

\* replace(/^["']|["']$/g, ""): one quotation mark off either end
StripQuotes(s) ==
  LET front == IF s # <<>> /\ s[1] \in QuoteChars THEN Tail(s) ELSE s
  IN IF front # <<>> /\ front[Len(front)] \in QuoteChars
     THEN SubSeq(front, 1, Len(front) - 1)
     ELSE front

\* The keywords a frontmatter holds are written either on one line between
\* brackets (style "flow", the text between the brackets kept in text) or as
\* one "- item" line each (style "block", kept in items).
FlowFrontmatter(keywords) ==
  [style |-> "flow", text |-> JoinKeywords(keywords), items |-> <<>>]

QuotedFrontmatter(keywords) ==
  [style |-> "flow",
   text |-> JoinKeywords([i \in 1..Len(keywords) |-> <<"\"">> \o keywords[i] \o <<"\"">>]),
   items |-> <<>>]

BlockFrontmatter(keywords) ==
  [style |-> "block", text |-> <<>>, items |-> keywords]

\* extractKeywordsFromFrontmatter: the regex asks for "keywords: [ ... ]"
extractKeywordsFromFrontmatter(fm) ==
  IF fm.style = "flow"
  THEN LET pieces == SplitComma(fm.text, <<>>)
           cleaned == [i \in 1..Len(pieces) |-> StripQuotes(Trim(pieces[i]))]
           NonEmpty(k) == Len(k) > 0
       IN SelectSeq(cleaned, NonEmpty)
  ELSE <<>>

\* updateFrontmatterKeywordsInContent: the same regex; content without a match
\* is returned as it is
updateFrontmatterKeywordsInContent(fm, keywords) ==
  IF fm.style = "flow"
  THEN [fm EXCEPT !.text = JoinKeywords(keywords)]
  ELSE fm

\* the keyword list of a document, as the metadata cache reads its frontmatter
KeywordList(fm) ==
  IF fm.style = "flow" THEN extractKeywordsFromFrontmatter(fm) ELSE fm.items

\* mergeToExistingZK, the keyword part
mergeKeywords(fm, candidateKeywords) ==
  updateFrontmatterKeywordsInContent(
    fm, Dedupe(extractKeywordsFromFrontmatter(fm) \o candidateKeywords, <<>>))

\* mergeToExistingZK: the addendum and the merged keyword list (the Zettels of
\* the vault are written by createZKNotes, keywords between brackets)
MergeInto(file, candidate) ==
  [file EXCEPT !.additions = Append(@, candidate.title),
               !.keywords = KeywordList(mergeKeywords(FlowFrontmatter(@),
                                                      candidate.keywords))]

\* ------------------------------------------------------- Structure Index
ZkIndexPath == <<"Z", "K", " ", "I", "n", "d", "e", "x">>

\* updateRecentSection: drop the entries that include the basename, put the new
\* link first, keep 10, and write the list back through a regex replacement
updateRecentSection(file, newNote) ==
  LET Other(item) == ~includes(item, newNote)
      recentItems == SliceTo(<<newNote>> \o SelectSeq(file.links, Other), RecentLimit)
  IN IF file.section
     THEN [file EXCEPT !.links = [i \in 1..Len(recentItems) |->
                                    ExpandReplacement(recentItems[i])]]
     ELSE file

\* ZKIndexManager.updateIndex: addNoteToIndex or createIndex
zkIndexUpdate(files, newNote) ==
  IF Exists(files, ZkIndexPath)
  THEN Modify(files, updateRecentSection(FileAt(files, ZkIndexPath), newNote))
  ELSE Append(files, [File(ZkIndexPath, "zk-index", <<>>) EXCEPT !.links = <<newNote>>])

\* ------------------------------------------------------------ ID Allocator
\* /^(\d{8})-(\d{3})/ on a file name
DateSeqMatch(fileName) ==
  /\ Len(fileName) >= 2 + SeqDigits
  /\ fileName[1] \in Range(Dates)
  /\ fileName[2] = "-"
  /\ \A i \in 3..(2 + SeqDigits) : IsDigit(fileName[i])

Max(a, b) == IF a >= b THEN a ELSE b

\* initializeZKCounters: the loop over the Zettel index
RECURSIVE SeedCounters(_, _, _)
SeedCounters(zettels, size, counters) ==
  IF zettels = <<>> THEN counters
  ELSE LET fileName == Head(zettels).path
           seq == ParseInt(SubSeq(fileName, 3, 2 + SeqDigits))
           daily == IF DateSeqMatch(fileName) /\ seq > counters.daily[fileName[1]]
                    THEN [counters.daily EXCEPT ![fileName[1]] = seq]
                    ELSE counters.daily
       IN SeedCounters(Tail(zettels), size,
                       [daily |-> daily, luhmann |-> Max(counters.luhmann, size)])

initializeZKCounters(idx, daily, luhmann) ==
  SeedCounters(getZettelIndex(idx), Len(getZettelIndex(idx)),
               [daily |-> daily, luhmann |-> luhmann])

\* generateZKId: the identifier returned and the counters it leaves
generateZKId ==
  LET idType == settings.zkIdType
      count == zkDailyCounter[today] + 1
  IN CASE idType = "date-sequence" ->
            /\ cz_zkId' = <<today, "-">> \o PadStart(NumToString(count), SeqWidth)
            /\ zkDailyCounter' = [zkDailyCounter EXCEPT ![today] = count]
            /\ UNCHANGED zkLuhmannCounter
       [] idType = "luhmann" ->
            /\ zkLuhmannCounter' = zkLuhmannCounter + 1
            /\ cz_zkId' = toLuhmannId(zkLuhmannCounter + 1)
            /\ UNCHANGED zkDailyCounter
       [] OTHER ->
            /\ cz_zkId' = <<"T">> \o NumToString(now)
            /\ UNCHANGED <<zkDailyCounter, zkLuhmannCounter>>

\* --------------------------------------------------------- createZKNotes
SourceFile == <<"S", "r", "c">>

TitleA == <<"A">>
TitlePrice == <<"$", "1", "0">>

ZkCandidates ==
  { [title |-> TitleA, keywords |-> <<KwSensor>>],
    [title |-> TitlePrice, keywords |-> <<KwIoT, KwSensorCap>>] }

Batches == UNION {[1..n -> ZkCandidates] : n \in 1..MaxBatch}

NewZettel(fileName, candidate) ==
  [File(fileName, "zettel", candidate.keywords) EXCEPT !.links = <<SourceFile>>]

\* similarNotes.find((n) => n.relevance >= zkMergeThreshold)
FindHigh_Strict(similarNotes, threshold) ==
  IF \E i \in 1..Len(similarNotes) : similarNotes[i].relevance > threshold
  THEN similarNotes[CHOOSE i \in 1..Len(similarNotes) :
         /\ similarNotes[i].relevance > threshold
         /\ \A j \in 1..(i - 1) : ~(similarNotes[j].relevance > threshold)]
  ELSE NoNote

FindHigh(similarNotes, threshold) ==
  IF \E i \in 1..Len(similarNotes) : similarNotes[i].relevance >= threshold
  THEN similarNotes[CHOOSE i \in 1..Len(similarNotes) :
         /\ similarNotes[i].relevance >= threshold
         /\ \A j \in 1..(i - 1) : similarNotes[j].relevance < threshold]
  ELSE NoNote

Quiescent == cz_pc \in {"idle", "failed"} /\ fr_pc = "idle"

ResetLocals ==
  /\ cz_high' = NoNote
  /\ cz_shouldMerge' = FALSE
  /\ cz_zkId' = <<>>
  /\ cz_fileName' = NoPath
  /\ cz_related' = <<>>
  /\ cz_k' = 0

\* the head of the for loop: the first search of the next candidate, or the end
BeginIteration(idx, queue) ==
  IF queue = <<>>
  THEN cz_pc' = "idle" /\ UNCHANGED searchVars
  ELSE /\ cz_pc' = "search1"
       /\ StartFindRelatedZettels(idx, queue[1].keywords, NoPath, "createZKNotes")

NextCandidate(idx) ==
  /\ cz_queue' = Tail(cz_queue)
  /\ ResetLocals
  /\ BeginIteration(idx, Tail(cz_queue))

\* step 1 of the create path: generateZKId and the file name
Allocate ==
  /\ generateZKId
  /\ cz_fileName' = cz_zkId' \o <<" ">> \o sanitizeFileName(cz_queue[1].title)
  /\ allocated' = Append(allocated, cz_zkId')
  /\ cz_pc' = "creating"

takeSearchResult ==
  /\ fr_pc' = "idle"
  /\ UNCHANGED <<fr_kind, fr_caller, fr_keywords, fr_exclude, fr_candidates,
                 fr_results, fr_trace>>

CZ_Call(candidates) ==
  /\ Quiescent
  /\ calls < MaxCalls
  /\ calls' = calls + 1
  /\ cz_queue' = candidates
  /\ createdNotes' = <<>>
  /\ mergedNotes' = <<>>
  /\ linkedCount' = 0
  /\ ResetLocals
  /\ BeginIteration(index, candidates)
  /\ UNCHANGED <<storeVars, allocVars, restarts, deletes, allocated, loadHigh,
                 prefilterVars, harnessVars>>

\* the first search has returned: the merge dialog opens, or the create path starts
CZ_Similar ==
  /\ cz_pc = "search1"
  /\ fr_pc = "done"
  /\ fr_caller = "createZKNotes"
  /\ takeSearchResult
  /\ LET highSimilarNote == FindHigh(fr_results, settings.zkMergeThreshold)
     IN IF highSimilarNote # NoNote
        THEN /\ cz_high' = highSimilarNote
             /\ cz_pc' = "decide"
             /\ UNCHANGED <<cz_zkId, cz_fileName, allocated, zkDailyCounter,
                            zkLuhmannCounter>>
        ELSE Allocate /\ UNCHANGED cz_high
  /\ UNCHANGED <<storeVars, settings, today, now, restarts, deletes, calls, loadHigh,
                 prefilterVars, harnessVars, cz_queue, cz_shouldMerge, cz_related,
                 cz_k, createdNotes, mergedNotes, linkedCount>>

\* a search of createZKNotes threw: the invocation ends with the error
CZ_SearchFailed ==
  /\ cz_pc \in {"search1", "search2"}
  /\ fr_pc = "failed"
  /\ fr_caller = "createZKNotes"
  /\ takeSearchResult
  /\ cz_pc' = "failed"
  /\ UNCHANGED <<storeVars, allocVars, envVars, prefilterVars, harnessVars, cz_queue,
                 cz_high, cz_shouldMerge, cz_zkId, cz_fileName, cz_related, cz_k,
                 createdNotes, mergedNotes, linkedCount>>

CZ_Decide_NoBlock(shouldMerge) ==
  /\ cz_pc = "decide"
  /\ cz_shouldMerge' = shouldMerge
  /\ Allocate
  /\ UNCHANGED <<storeVars, settings, today, now, restarts, deletes, calls, loadHigh,
                 searchVars, prefilterVars, harnessVars, cz_queue, cz_high,
                 cz_related, cz_k, createdNotes, mergedNotes, linkedCount>>

\* the user answers the merge dialog: the promise resolves
CZ_Decide(shouldMerge) ==
  /\ cz_pc = "decide"
  /\ cz_pc' = "resolved"
  /\ cz_shouldMerge' = shouldMerge
  /\ UNCHANGED <<storeVars, allocVars, envVars, searchVars, prefilterVars, harnessVars,
                 cz_queue, cz_high, cz_zkId, cz_fileName, cz_related, cz_k,
                 createdNotes, mergedNotes, linkedCount>>

\* after the decision: mergeToExistingZK starts (or returns at once when the
\* target is no file), or the create path starts
CZ_AfterDecision ==
  /\ cz_pc = "resolved"
  /\ IF cz_shouldMerge
     THEN /\ UNCHANGED <<allocated, zkDailyCounter, zkLuhmannCounter>>
          /\ IF Exists(vault, cz_high.note.path)
             THEN /\ cz_pc' = "merging"
                  /\ UNCHANGED <<cz_queue, cz_high, cz_shouldMerge, cz_zkId,
                                 cz_fileName, cz_related, cz_k, mergedNotes,
                                 searchVars>>
             ELSE /\ mergedNotes' = Append(mergedNotes, cz_queue[1].title)
                  /\ NextCandidate(index)
     ELSE /\ Allocate
          /\ UNCHANGED <<cz_queue, cz_high, cz_shouldMerge, cz_related, cz_k,
                         mergedNotes, searchVars>>
  /\ UNCHANGED <<storeVars, settings, today, now, restarts, deletes, calls, loadHigh,
                 prefilterVars, harnessVars, createdNotes, linkedCount>>

\* mergeToExistingZK: read, modify, updateIndex; then the next candidate
CZ_Merge_IndexFirst(writeOk) ==
  /\ cz_pc = "merging"
  /\ LET merged == MergeInto(FileAt(vault, cz_high.note.path), cz_queue[1])
     IN /\ index' = MapSet(index, indexNote(merged))
        /\ IF writeOk
           THEN /\ vault' = Modify(vault, merged)
                /\ mergedNotes' = Append(mergedNotes, cz_queue[1].title)
                /\ NextCandidate(index')
           ELSE /\ cz_pc' = "failed"
                /\ UNCHANGED <<vault, mergedNotes, searchVars, cz_queue, cz_high,
                               cz_shouldMerge, cz_zkId, cz_fileName, cz_related, cz_k>>
  /\ UNCHANGED <<allocVars, envVars, prefilterVars, harnessVars, createdNotes,
                 linkedCount>>

\* mergeToExistingZK: read, modify, updateIndex, then the next candidate; when
\* vault.modify throws, the invocation ends with the error
CZ_Merge(writeOk) ==
  /\ cz_pc = "merging"
  /\ IF writeOk
     THEN LET merged == MergeInto(FileAt(vault, cz_high.note.path), cz_queue[1])
          IN /\ vault' = Modify(vault, merged)
             /\ index' = MapSet(index, indexNote(merged))
             /\ mergedNotes' = Append(mergedNotes, cz_queue[1].title)
             /\ NextCandidate(index')
     ELSE /\ cz_pc' = "failed"
          /\ UNCHANGED <<storeVars, mergedNotes, searchVars, cz_queue, cz_high,
                         cz_shouldMerge, cz_zkId, cz_fileName, cz_related, cz_k>>
  /\ UNCHANGED <<allocVars, envVars, prefilterVars, harnessVars, createdNotes,
                 linkedCount>>

\* vault.create, updateIndex and the start of the second search
CZ_Create ==
  /\ cz_pc = "creating"
  /\ IF Exists(vault, cz_fileName)
     THEN /\ cz_pc' = "failed"
          /\ UNCHANGED <<storeVars, createdNotes, searchVars>>
     ELSE LET newFile == NewZettel(cz_fileName, cz_queue[1])
          IN /\ vault' = Append(vault, newFile)
             /\ createdNotes' = Append(createdNotes, cz_queue[1].title)
             /\ index' = MapSet(index, indexNote(newFile))
             /\ cz_pc' = "search2"
             /\ StartFindRelatedZettels(index', cz_queue[1].keywords, cz_fileName,
                                        "createZKNotes")
  /\ UNCHANGED <<allocVars, envVars, prefilterVars, harnessVars, cz_queue, cz_high,
                 cz_shouldMerge, cz_zkId, cz_fileName, cz_related, cz_k, mergedNotes,
                 linkedCount>>

\* the second search has returned
CZ_Related ==
  /\ cz_pc = "search2"
  /\ fr_pc = "done"
  /\ fr_caller = "createZKNotes"
  /\ takeSearchResult
  /\ cz_related' = fr_results
  /\ cz_pc' = IF Len(fr_results) > 0 THEN "linking" ELSE "zkindex"
  /\ UNCHANGED <<storeVars, allocVars, envVars, prefilterVars, harnessVars, cz_queue,
                 cz_high, cz_shouldMerge, cz_zkId, cz_fileName, cz_k, createdNotes,
                 mergedNotes, linkedCount>>

\* addZKRelatedLinks on the new note
CZ_Link ==
  /\ cz_pc = "linking"
  /\ vault' = addZKRelatedLinks(vault, cz_fileName, cz_related)
  /\ cz_pc' = "backlinking"
  /\ cz_k' = 1
  /\ UNCHANGED <<index, allocVars, envVars, searchVars, prefilterVars, harnessVars,
                 cz_queue, cz_high, cz_shouldMerge, cz_zkId, cz_fileName, cz_related,
                 createdNotes, mergedNotes, linkedCount>>

\* addBacklinksToZettels, one related note per step
CZ_Backlink ==
  /\ cz_pc = "backlinking"
  /\ vault' = BacklinkOne(vault, cz_fileName, cz_related[cz_k])
  /\ IF cz_k = Len(cz_related)
     THEN /\ linkedCount' = linkedCount + Len(cz_related)
          /\ cz_pc' = "zkindex"
          /\ UNCHANGED cz_k
     ELSE /\ cz_k' = cz_k + 1
          /\ UNCHANGED <<linkedCount, cz_pc>>
  /\ UNCHANGED <<index, allocVars, envVars, searchVars, prefilterVars, harnessVars,
                 cz_queue, cz_high, cz_shouldMerge, cz_zkId, cz_fileName, cz_related,
                 createdNotes, mergedNotes>>

\* zkIndexManager.updateIndex
CZ_ZkIndex ==
  /\ cz_pc = "zkindex"
  /\ vault' = zkIndexUpdate(vault, cz_fileName)
  /\ cz_pc' = "delay"
  /\ UNCHANGED <<index, allocVars, envVars, searchVars, prefilterVars, harnessVars,
                 cz_queue, cz_high, cz_shouldMerge, cz_zkId, cz_fileName, cz_related,
                 cz_k, createdNotes, mergedNotes, linkedCount>>

\* the 10 ms pause, then the next candidate
CZ_Delay ==
  /\ cz_pc = "delay"
  /\ now' = now + DelayMs
  /\ NextCandidate(index)
  /\ UNCHANGED <<storeVars, settings, zkDailyCounter, zkLuhmannCounter, today, envVars,
                 prefilterVars, harnessVars, createdNotes, mergedNotes, linkedCount>>

\* ----------------------------------------------------------- environment
\* the sequence number an identifier YYYYMMDD-SEQ carries, all its digits read
RECURSIVE DigitRun(_)
DigitRun(s) ==
  IF s = <<>> \/ ~IsDigit(Head(s)) THEN <<>>
  ELSE <<Head(s)>> \o DigitRun(Tail(s))

SequenceOf(path, date) ==
  IF Len(path) >= 3 /\ path[1] = date /\ path[2] = "-"
  THEN ParseInt(DigitRun(SubSeq(path, 3, Len(path))))
  ELSE 0

HighestSequence(idx, date) ==
  LET seqs == {SequenceOf(idx[i].path, date) :
                 i \in {j \in 1..Len(idx) : IsZettel(idx[j])}}
  IN IF seqs = {} THEN 0 ELSE CHOOSE m \in seqs : \A n \in seqs : n <= m

\* the user deletes a document; no handler of the plugin listens to deletions
DeleteZettel(i) ==
  /\ Quiescent
  /\ deletes < MaxDeletes
  /\ i \in 1..Len(vault)
  /\ deletes' = deletes + 1
  /\ vault' = Remove(vault, vault[i].path)
  /\ UNCHANGED <<index, allocVars, restarts, calls, allocated, loadHigh, searchVars,
                 prefilterVars, createVars, harnessVars>>

\* the plugin is loaded again: new counters, new index, initializeZKCounters
Onload ==
  /\ Quiescent
  /\ restarts < MaxRestarts
  /\ restarts' = restarts + 1
  /\ index' = buildIndex(vault)
  /\ LET seeded == initializeZKCounters(index', [d \in Range(Dates) |-> 0], 0)
     IN /\ zkDailyCounter' = seeded.daily
        /\ zkLuhmannCounter' = seeded.luhmann
  /\ allocated' = <<>>
  /\ loadHigh' = [d \in Range(Dates) |-> HighestSequence(index', d)]
  /\ cz_pc' = "idle"
  /\ cz_queue' = <<>>
  /\ ResetLocals
  /\ createdNotes' = <<>>
  /\ mergedNotes' = <<>>
  /\ linkedCount' = 0
  /\ UNCHANGED <<vault, settings, today, now, deletes, calls, searchVars,
                 prefilterVars, harnessVars>>

IdTypes == {"timestamp", "date-sequence", "luhmann"}
Thresholds == {80, 90}

\* midnight (UTC) passes
NextDay ==
  /\ Quiescent
  /\ today = Date1
  /\ today' = Date2
  /\ UNCHANGED <<storeVars, settings, zkDailyCounter, zkLuhmannCounter, now, envVars,
                 searchVars, prefilterVars, createVars, harnessVars>>

\* a vault left by earlier runs: empty, two Zettels of a long day under
\* date-sequence identifiers, or two Zettels under Luhmann identifiers
InitialVaults ==
  { <<>>,
    << File(<<Date1, "-", "9", "9", "9", " ">> \o TitleA, "zettel", <<KwSensor>>),
       File(<<Date1, "-", "1", "0", "0", "0", " ">> \o TitlePrice, "zettel",
            <<KwIoT, KwSensorCap>>) >>,
    << File(toLuhmannId(1) \o <<" ">> \o TitleA, "zettel", <<KwSensor>>),
       File(toLuhmannId(2) \o <<" ">> \o TitlePrice, "zettel",
            <<KwIoT, KwSensorCap>>) >> }

Init ==
  /\ vault \in InitialVaults
  /\ index = buildIndex(vault)
  /\ settings \in [zkIdType : IdTypes, zkMergeThreshold : Thresholds]
  /\ LET seeded == initializeZKCounters(index, [d \in Range(Dates) |-> 0], 0)
     IN /\ zkDailyCounter = seeded.daily
        /\ zkLuhmannCounter = seeded.luhmann
  /\ today = Date1
  /\ now = 0
  /\ restarts = 0
  /\ deletes = 0
  /\ calls = 0
  /\ allocated = <<>>
  /\ loadHigh = [d \in Range(Dates) |-> HighestSequence(index, d)]
  /\ InitSearch
  /\ InitPrefilterHarness
  /\ InitCreate
  /\ InitHarnesses("none")

searchStepUnchanged ==
  UNCHANGED <<storeVars, allocVars, envVars, prefilterVars, createVars, harnessVars>>

Next ==
  \/ \E candidates \in Batches : CZ_Call(candidates)
  \/ CZ_Similar
  \/ CZ_SearchFailed
  \/ \E shouldMerge \in BOOLEAN : CZ_Decide(shouldMerge)
  \/ CZ_AfterDecision
  \/ \E writeOk \in BOOLEAN : CZ_Merge(writeOk)
  \/ CZ_Create
  \/ CZ_Related
  \/ CZ_Link
  \/ CZ_Backlink
  \/ CZ_ZkIndex
  \/ CZ_Delay
  \/ \E parsed \in ZkResponses : FR_Scored(parsed) /\ searchStepUnchanged
  \/ FR_Failed /\ searchStepUnchanged
  \/ \E i \in 1..Len(vault) : DeleteZettel(i)
  \/ Onload
  \/ NextDay

\* -------------------------------------------- document writes and the index
\* saveKeywordsToNote: read, write the keywords, vault.modify, updateIndex;
\* when vault.modify throws nothing else happens
SaveKeywords(i, keywords, writeOk) ==
  /\ Quiescent
  /\ sv_saves < MaxSaves
  /\ i \in 1..Len(vault)
  /\ sv_saves' = sv_saves + 1
  /\ IF writeOk
     THEN LET saved == [vault[i] EXCEPT !.keywords = keywords]
          IN /\ vault' = Modify(vault, saved)
             /\ index' = MapSet(index, indexNote(saved))
     ELSE UNCHANGED storeVars
  /\ HarnessesUnchanged("save")
  /\ UNCHANGED <<allocVars, envVars, searchVars, prefilterVars, createVars>>

\* a vault of two Luhmann Zettels, default settings but for the scheme
InitWrites ==
  /\ Init
  /\ Len(vault) = 2
  /\ settings = [zkIdType |-> "luhmann", zkMergeThreshold |-> DefaultMergeThreshold]

NextWrites ==
  \/ Next
  \/ \E i \in 1..Len(vault), writeOk \in BOOLEAN : SaveKeywords(i, <<KwMqtt>>, writeOk)

SpecWrites == InitWrites /\ [][NextWrites]_vars

\* -------------------------------------------- mergeToExistingZK: keywords
Ka == <<"a">>
Kb == <<"b">>
Kc == <<"c">>

MergeKeywordSet == {Ka, Kb, Kc}

KeywordLists ==
  UNION {[1..n -> MergeKeywordSet] : n \in 0..MaxKeywords}

NoRepeat(s) == \A i, j \in 1..Len(s) : s[i] = s[j] => i = j

\* the targets: Zettels written by createZKNotes, by saveKeywordsToNote
\* (quoted keywords) or through the property editor (one line per keyword)
MergeTargets ==
  {FlowFrontmatter(k) : k \in {l \in KeywordLists : NoRepeat(l)}}
    \cup {QuotedFrontmatter(k) : k \in {l \in KeywordLists : NoRepeat(l)}}
    \cup {BlockFrontmatter(k) : k \in {l \in KeywordLists : NoRepeat(l)}}

InitMerge ==
  /\ vault = <<>>
  /\ index = <<>>
  /\ InitAlloc
  /\ InitSearch
  /\ InitPrefilterHarness
  /\ InitCreate
  /\ InitHarnesses("merge")
  /\ mg_doc \in MergeTargets
  /\ mg_prev = <<>>
  /\ mg_cand = <<>>
  /\ mg_prevCand = <<>>
  /\ mg_runs = 0

MergeRun(keywords) ==
  /\ mg_runs < MaxMerges
  /\ mg_runs' = mg_runs + 1
  /\ mg_prev' = KeywordList(mg_doc)
  /\ mg_prevCand' = mg_cand
  /\ mg_cand' = keywords
  /\ mg_doc' = mergeKeywords(mg_doc, keywords)
  /\ HarnessesUnchanged("merge")
  /\ UNCHANGED <<storeVars, allocVars, envVars, searchVars, prefilterVars, createVars>>

NextMerge == \E keywords \in KeywordLists \ {<<>>} : MergeRun(keywords)

SpecMerge == InitMerge /\ [][NextMerge]_vars

\* ---------------------------------------------------- buildIndex: harness
MaxFiles == 3

RebuildPaths == [i \in 1..MaxFiles |-> LibPath(i)]

RebuildFiles(path) ==
  { [File(path, type, keywords) EXCEPT !.frontmatter = state] :
      type \in {"zettel", "none"}, keywords \in {<<>>, <<KwSensor>>},
      state \in FrontmatterStates }

\* the stores: one to MaxFiles markdown documents
RebuildVaults ==
  UNION { {files \in [1..n -> UNION {RebuildFiles(RebuildPaths[i]) : i \in 1..MaxFiles}] :
             \A i \in 1..n : files[i].path = RebuildPaths[i]} : n \in 1..MaxFiles }

\* the index before the rebuild: empty, or holding the record of a document
\* that is no longer in the store
InitRebuild ==
  /\ vault \in RebuildVaults
  /\ index \in {<<>>, <<indexNote(File(TitleA, "zettel", <<KwMqtt>>))>>}
  /\ InitAlloc
  /\ InitSearch
  /\ InitPrefilterHarness
  /\ InitCreate
  /\ InitHarnesses("rebuild")
  /\ rb_done = FALSE

RebuildRun ==
  /\ ~rb_done
  /\ rb_done' = TRUE
  /\ index' = buildIndex(vault)
  /\ HarnessesUnchanged("rebuild")
  /\ UNCHANGED <<vault, allocVars, envVars, searchVars, prefilterVars, createVars>>

SpecRebuild == InitRebuild /\ [][RebuildRun]_vars

\* ------------------------------------------------------- project hubs
ProjectA == <<"A">>
ProjectB == <<"B", "/", "1">>

Projects == {ProjectA, ProjectB}

Folders == {"Projects", "Archive"}

MocSuffix == <<" ", "M", "O", "C">>

\* `${folder}/${sanitizedProject} MOC.md`
MocPath(project, folder) ==
  [folder |-> folder, name |-> sanitizeFileName(project) \o MocSuffix]

\* a hub document: frontmatter type project-moc and its project
Hub(path, project) == [path |-> path, project |-> project]

\* hubs the user has written by hand: named after the project alone
HandMade(project) == Hub([folder |-> "Projects", name |-> sanitizeFileName(project)], project)

RegistryHas(registry, project) ==
  \E i \in 1..Len(registry) : registry[i].project = project

\* projectMOCs.set(project, moc)
RegistrySet(registry, moc) ==
  IF RegistryHas(registry, moc.project)
  THEN [i \in 1..Len(registry) |->
          IF registry[i].project = moc.project THEN moc ELSE registry[i]]
  ELSE Append(registry, moc)

\* scanProjectMOCs: clear, then one set per hub document of the store
RECURSIVE ScanFrom(_, _)
ScanFrom(docs, registry) ==
  IF docs = <<>> THEN registry
  ELSE ScanFrom(Tail(docs), RegistrySet(registry, Head(docs)))

scanProjectMOCs(docs) == ScanFrom(docs, <<>>)

DocExists(docs, path) == \E i \in 1..Len(docs) : docs[i].path = path

\* the stores at load: no hub, or hubs of distinct projects, hand-made or
\* created by the plugin
InitialHubs ==
  { <<>>,
    <<HandMade(ProjectA)>>,
    <<Hub(MocPath(ProjectA, "Projects"), ProjectA)>>,
    <<HandMade(ProjectA), Hub(MocPath(ProjectB, "Projects"), ProjectB)>>,
    <<Hub(MocPath(ProjectA, "Archive"), ProjectA), HandMade(ProjectB)>> }

InitMoc ==
  /\ vault = <<>>
  /\ index = <<>>
  /\ InitAlloc
  /\ InitSearch
  /\ InitPrefilterHarness
  /\ InitCreate
  /\ InitHarnesses("moc")
  /\ mc_docs \in InitialHubs
  /\ mc_registry = <<>>
  /\ mc_result = "none"
  /\ mc_held = FALSE
  /\ mc_calls = 0

mocRest ==
  /\ HarnessesUnchanged("moc")
  /\ UNCHANGED <<storeVars, allocVars, envVars, searchVars, prefilterVars, createVars>>

MocScan ==
  /\ mc_calls < MaxMocCalls
  /\ mc_calls' = mc_calls + 1
  /\ mc_registry' = scanProjectMOCs(mc_docs)
  /\ mc_result' = "none"
  /\ mc_held' = FALSE
  /\ UNCHANGED mc_docs
  /\ mocRest

\* createProjectMOC: null when a file of the hub's name exists in the folder,
\* else vault.create and projectMOCs.set
MocCreate(project, folder) ==
  /\ mc_calls < MaxMocCalls
  /\ mc_calls' = mc_calls + 1
  /\ mc_held' = RegistryHas(mc_registry, project)
  /\ IF DocExists(mc_docs, MocPath(project, folder))
     THEN /\ mc_result' = "null"
          /\ UNCHANGED <<mc_docs, mc_registry>>
     ELSE LET moc == Hub(MocPath(project, folder), project)
          IN /\ mc_docs' = Append(mc_docs, moc)
             /\ mc_registry' = RegistrySet(mc_registry, moc)
             /\ mc_result' = "file"
  /\ mocRest

NextMoc ==
  \/ MocScan
  \/ \E project \in Projects, folder \in Folders : MocCreate(project, folder)

SpecMoc == InitMoc /\ [][NextMoc]_vars

\* ------------------------------------------------- addNoteToMOC: harness
\* The hub document: whether it is still in the store, its "## 관련 노트"
\* section ("none": no heading; "open": heading followed by a line break;
\* "bare": heading as the last line, no line break after it) and the link
\* entries it holds.
HubSections == {"none", "open", "bare"}

OtherNote == <<"B">>

LinkNotes == {TitleA, TitlePrice}

HubDocuments ==
  { [exists |-> e, section |-> s, links |-> l] :
      e \in BOOLEAN, s \in HubSections, l \in {<<>>, <<OtherNote>>} }

HubHasLink(hub, name) == \E i \in 1..Len(hub.links) : hub.links[i] = name

\* the new content: under the heading through replace(regex, `$1- ${link}\n`),
\* whose regex asks for a line break after the heading, or at the end of the
\* document together with a new heading
addLinkToHub(hub, name) ==
  IF hub.section = "open"
  THEN [hub EXCEPT !.links = <<ExpandGroups(name, MocGroups)>> \o @]
  ELSE IF hub.section = "bare"
  THEN hub
  ELSE [hub EXCEPT !.links = Append(@, name), !.section = "open"]

InitLink ==
  /\ vault = <<>>
  /\ index = <<>>
  /\ InitAlloc
  /\ InitSearch
  /\ InitPrefilterHarness
  /\ InitCreate
  /\ InitHarnesses("link")
  /\ ml_hub \in HubDocuments
  /\ ml_known \in BOOLEAN
  /\ ml_note \in LinkNotes
  /\ ml_wrote = <<>>
  /\ ml_returns = <<>>

\* addNoteToMOC(project, noteTitle, notePath)
MocLink ==
  /\ Len(ml_returns) < MaxLinkCalls
  /\ IF ~ml_known \/ ~ml_hub.exists
     THEN /\ ml_returns' = Append(ml_returns, FALSE)
          /\ ml_wrote' = Append(ml_wrote, FALSE)
          /\ UNCHANGED ml_hub
     ELSE IF HubHasLink(ml_hub, ml_note)
     THEN /\ ml_returns' = Append(ml_returns, TRUE)
          /\ ml_wrote' = Append(ml_wrote, FALSE)
          /\ UNCHANGED ml_hub
     ELSE /\ ml_hub' = addLinkToHub(ml_hub, ml_note)
          /\ ml_wrote' = Append(ml_wrote, TRUE)
          /\ ml_returns' = Append(ml_returns, TRUE)
  /\ HarnessesUnchanged("link")
  /\ UNCHANGED <<ml_known, ml_note, storeVars, allocVars, envVars, searchVars,
                 prefilterVars, createVars>>

SpecLink == InitLink /\ [][MocLink]_vars

\* ------------------------------------------- Structure Index: recent section
\* base names of Zettels with Luhmann identifiers and one title
RecentName(i) == toLuhmannId(i) \o <<" ">> \o TitleA

\* the entries from note hi down to note lo, newest first
RecentRun(lo, hi) == [i \in 1..(hi - lo + 1) |-> RecentName(hi - i + 1)]

\* the documents before the update: no entry, or a run of at most RecentLimit
\* entries as earlier updates have left it
RecentLists ==
  {<<>>} \cup { RecentRun(r[1], r[2]) :
                  r \in { p \in (1..MaxRecentNotes) \X (1..MaxRecentNotes) :
                           p[1] <= p[2] /\ p[2] - p[1] < RecentLimit } }

InitRecent ==
  /\ vault = <<>>
  /\ index = <<>>
  /\ InitAlloc
  /\ InitSearch
  /\ InitPrefilterHarness
  /\ InitCreate
  /\ InitHarnesses("recent")
  /\ rc_file \in { [File(ZkIndexPath, "zk-index", <<>>) EXCEPT !.links = l] : l \in RecentLists }
  /\ rc_prev = <<>>
  /\ rc_last = <<>>
  /\ rc_adds = 0

\* addNoteToIndex, the recent section
RecentAdd(newNote) ==
  /\ rc_adds < MaxAdds
  /\ rc_adds' = rc_adds + 1
  /\ rc_prev' = rc_file.links
  /\ rc_last' = newNote
  /\ rc_file' = updateRecentSection(rc_file, newNote)
  /\ HarnessesUnchanged("recent")
  /\ UNCHANGED <<storeVars, allocVars, envVars, searchVars, prefilterVars, createVars>>

NextRecent == \E i \in 1..MaxRecentNotes : RecentAdd(RecentName(i))

SpecRecent == InitRecent /\ [][NextRecent]_vars

\* ------------------------------------------------ inbox watcher: debounce
\* Time is counted in seconds: DebounceWait stands for the 3000 ms of the
\* debounce and of the test in processPendingFiles.
InboxPaths == {"a", "b"}

NoTimer == -1

PendingHas(pending, path) == \E i \in 1..Len(pending) : pending[i].path = path

\* pendingFiles.set(path, Date.now())
PendingSet(pending, path, stamp) ==
  IF PendingHas(pending, path)
  THEN [i \in 1..Len(pending) |->
          IF pending[i].path = path THEN [path |-> path, stamp |-> stamp] ELSE pending[i]]
  ELSE Append(pending, [path |-> path, stamp |-> stamp])

\* pendingFiles.delete(path)
PendingDelete(pending, path) ==
  LET Other(e) == e.path # path
  IN SelectSeq(pending, Other)

\* the entries a pass does not skip: now - timestamp >= 3000
Elapsed(pending, passNow) ==
  {i \in 1..Len(pending) : passNow - pending[i].stamp >= DebounceWait}

InitDebounce ==
  /\ vault = <<>>
  /\ index = <<>>
  /\ InitAlloc
  /\ InitSearch
  /\ InitPrefilterHarness
  /\ InitCreate
  /\ InitHarnesses("debounce")
  /\ db_clock = 0
  /\ db_pending = <<>>
  /\ db_timer = NoTimer
  /\ db_passes = <<>>
  /\ db_inbox = InboxPaths
  /\ db_lastEvent = [p \in InboxPaths |-> -1]
  /\ db_classified = <<>>
  /\ db_events = 0

debounceRest ==
  /\ HarnessesUnchanged("debounce")
  /\ UNCHANGED <<storeVars, allocVars, envVars, searchVars, prefilterVars, createVars>>

\* onFileChange for a create or modify event of an inbox document:
\* pendingFiles.set and processDebounced(), which resets the timer
FileChange(path) ==
  /\ db_events < MaxEvents
  /\ path \in db_inbox
  /\ db_events' = db_events + 1
  /\ db_pending' = PendingSet(db_pending, path, db_clock)
  /\ db_lastEvent' = [db_lastEvent EXCEPT ![path] = db_clock]
  /\ db_timer' = db_clock + DebounceWait
  /\ UNCHANGED <<db_clock, db_passes, db_inbox, db_classified>>
  /\ debounceRest

\* the debounce timer fires: processPendingFiles begins and takes Date.now()
TimerFires ==
  /\ db_timer # NoTimer
  /\ db_clock >= db_timer
  /\ db_timer' = NoTimer
  /\ db_passes' = Append(db_passes, [state |-> "loop", now |-> db_clock, path |-> ""])
  /\ UNCHANGED <<db_clock, db_pending, db_inbox, db_lastEvent, db_classified, db_events>>
  /\ debounceRest

\* one turn of the loop over pendingFiles.entries(): the first entry whose 3
\* seconds have passed is deleted from the map; a path that is no document
\* any more is dropped, the others are read
PassTake(k) ==
  /\ k \in 1..Len(db_passes)
  /\ db_passes[k].state = "loop"
  /\ Elapsed(db_pending, db_passes[k].now) # {}
  /\ LET i == CHOOSE i \in Elapsed(db_pending, db_passes[k].now) :
                 \A j \in Elapsed(db_pending, db_passes[k].now) : i <= j
         path == db_pending[i].path
     IN /\ db_pending' = PendingDelete(db_pending, path)
        /\ db_passes' = IF path \in db_inbox
                        THEN [db_passes EXCEPT ![k].state = "reading", ![k].path = path]
                        ELSE db_passes
  /\ UNCHANGED <<db_clock, db_timer, db_inbox, db_lastEvent, db_classified, db_events>>
  /\ debounceRest

\* the loop is over
PassEnd(k) ==
  /\ k \in 1..Len(db_passes)
  /\ db_passes[k].state = "loop"
  /\ Elapsed(db_pending, db_passes[k].now) = {}
  /\ db_passes' = [db_passes EXCEPT ![k].state = "done"]
  /\ UNCHANGED <<db_clock, db_pending, db_timer, db_inbox, db_lastEvent, db_classified,
                 db_events>>
  /\ debounceRest

\* vault.read has returned: without the trigger tag the loop goes on, with it
\* classifyProject is called on the content read
PassRead(k, tagged) ==
  /\ k \in 1..Len(db_passes)
  /\ db_passes[k].state = "reading"
  /\ IF tagged /\ db_passes[k].path \in db_inbox
     THEN /\ db_passes' = [db_passes EXCEPT ![k].state = "classifying"]
          /\ db_classified' = Append(db_classified,
                                     [path |-> db_passes[k].path, time |-> db_clock])
     ELSE /\ db_passes' = [db_passes EXCEPT ![k].state = "loop"]
          /\ UNCHANGED db_classified
  /\ UNCHANGED <<db_clock, db_pending, db_timer, db_inbox, db_lastEvent, db_events>>
  /\ debounceRest

\* classifyProject has returned and applyClassifyResult runs: vault.modify
\* raises a modify event for the path, then the document is moved out of the
\* inbox; a failure is logged and the loop goes on
PassApply(k, ok) ==
  /\ k \in 1..Len(db_passes)
  /\ db_passes[k].state = "classifying"
  /\ db_passes' = [db_passes EXCEPT ![k].state = "loop"]
  /\ IF ok /\ db_passes[k].path \in db_inbox
     THEN /\ db_pending' = PendingSet(db_pending, db_passes[k].path, db_clock)
          /\ db_timer' = db_clock + DebounceWait
          /\ db_inbox' = db_inbox \ {db_passes[k].path}
     ELSE UNCHANGED <<db_pending, db_timer, db_inbox>>
  /\ UNCHANGED <<db_clock, db_lastEvent, db_classified, db_events>>
  /\ debounceRest

\* a second passes; a timer that is due fires first
Tick ==
  /\ db_clock < MaxTime
  /\ db_timer = NoTimer \/ db_clock < db_timer
  /\ db_clock' = db_clock + 1
  /\ UNCHANGED <<db_pending, db_timer, db_passes, db_inbox, db_lastEvent, db_classified,
                 db_events>>
  /\ debounceRest

NextDebounce ==
  \/ \E path \in InboxPaths : FileChange(path)
  \/ TimerFires
  \/ \E k \in 1..Len(db_passes) : PassTake(k)
  \/ \E k \in 1..Len(db_passes) : PassEnd(k)
  \/ \E k \in 1..Len(db_passes), tagged \in BOOLEAN : PassRead(k, tagged)
  \/ \E k \in 1..Len(db_passes), ok \in BOOLEAN : PassApply(k, ok)
  \/ Tick

SpecDebounce == InitDebounce /\ [][NextDebounce]_vars

\* ------------------------------------------------ gateway: response parsers
\* The classifier output, by what the parsers make of it: "prose" holds no
\* bracket and no brace; "broken" holds them but JSON.parse throws on the
\* match; "array" is a JSON array of the items; "object" is one JSON object
\* (items holds it), its fields scalars.
\* An item is null, a string, a number or an object; an object either holds
\* the fields the operation asks for (full) or none of them.
JsonItems ==
  { [t |-> "null", full |-> FALSE], [t |-> "string", full |-> FALSE],
    [t |-> "number", full |-> FALSE], [t |-> "object", full |-> FALSE],
    [t |-> "object", full |-> TRUE] }

JsonObjects == {item \in JsonItems : item.t = "object"}

ClassifierOutputs ==
  { [kind |-> "prose", items |-> <<>>], [kind |-> "broken", items |-> <<>>] }
    \cup { [kind |-> "array", items |-> items] :
              items \in UNION {[1..n -> JsonItems] : n \in 0..MaxItems} }
    \cup { [kind |-> "object", items |-> <<item>>] : item \in JsonObjects }

GatewayOperations == {"extractKeywords", "findRelatedNotes", "extractZK", "classifyProject"}

Returned(value) == [raised |-> FALSE, value |-> value]

Raised == [raised |-> TRUE, value |-> <<>>]

\* text.match(/\[[\s\S]*\]/) and JSON.parse of the match give an array
ArrayParsed(text) == text.kind = "array"

HasNull(items) == \E i \in 1..Len(items) : items[i].t = "null"

\* parseKeywordsResponse: the strings of the array; [] without a match, on a
\* JSON error and for a value that is no array
parseKeywordsResponse(text) ==
  IF ArrayParsed(text)
  THEN LET IsString(item) == item.t = "string"
       IN Returned(SelectSeq(text.items, IsString))
  ELSE Returned(<<>>)

\* parseRelatedNotesResponse: the objects with a numeric index and relevance;
\* typeof null is "object", reading null.index throws inside the try and the
\* catch returns []
parseRelatedItems(text) ==
  IF ArrayParsed(text) /\ ~HasNull(text.items)
  THEN LET Scored(item) == item.t = "object" /\ item.full
       IN Returned(SliceTo(SelectSeq(text.items, Scored), MaxRelated))
  ELSE Returned(<<>>)

\* parseZKResponse without its try and catch
parseZKResponse_NoCatch(text) ==
  IF ArrayParsed(text)
  THEN IF HasNull(text.items) THEN Raised ELSE Returned(text.items)
  ELSE Returned(<<>>)

\* parseZKResponse: one candidate per item of the array; reading the title
\* of null throws inside the try and the catch returns []
parseZKResponse(text) ==
  IF ArrayParsed(text) /\ ~HasNull(text.items)
  THEN Returned(text.items)
  ELSE Returned(<<>>)

DefaultClassification == [targetType |-> "library", title |-> "Untitled"]

\* parseProjectResponse: text.match(/\{[\s\S]*\}/) runs from the first brace
\* to the last one; without a match and on a JSON error it throws, and the
\* fields a parsed object lacks get their defaults
parseProjectResponse(text) ==
  LET objects == SelectSeq(text.items, LAMBDA item : item.t = "object")
  IN IF text.kind \in {"prose", "broken"} \/ Len(objects) # 1
     THEN Raised
     ELSE IF objects[1].full
     THEN Returned([targetType |-> "project", title |-> "T"])
     ELSE Returned(DefaultClassification)

ParseOutput(op, text) ==
  CASE op = "extractKeywords" -> parseKeywordsResponse(text)
    [] op = "findRelatedNotes" -> parseRelatedItems(text)
    [] op = "extractZK" -> parseZKResponse(text)
    [] op = "classifyProject" -> parseProjectResponse(text)

InitResponse ==
  /\ vault = <<>>
  /\ index = <<>>
  /\ InitAlloc
  /\ InitSearch
  /\ InitPrefilterHarness
  /\ InitCreate
  /\ InitHarnesses("response")
  /\ rs_op \in GatewayOperations
  /\ rs_text \in ClassifierOutputs
  /\ rs_raised = FALSE
  /\ rs_value = <<>>
  /\ rs_done = FALSE

\* the operation parses the classifier output it has received
ParseResponse ==
  /\ ~rs_done
  /\ rs_done' = TRUE
  /\ rs_raised' = ParseOutput(rs_op, rs_text).raised
  /\ rs_value' = ParseOutput(rs_op, rs_text).value
  /\ HarnessesUnchanged("response")
  /\ UNCHANGED <<rs_op, rs_text, storeVars, allocVars, envVars, searchVars,
                 prefilterVars, createVars>>

SpecResponse == InitResponse /\ [][ParseResponse]_vars

\* ------------------------------------------------------- OCR daily limit
\* the values of the daily limit the model draws from (pages)
OcrLimits == {2, 3, 4}

PageCounts == 1..MaxPages

\* checkDailyLimit(pagesToProcess).allowed
checkDailyLimit(pagesToProcess, limit, used) == pagesToProcess <= limit - used

RECURSIVE SumPages(_)
SumPages(files) == IF files = <<>> THEN 0 ELSE Head(files) + SumPages(Tail(files))

\* the inbox: the page counts of its images and scanned PDFs
Inboxes == UNION {[1..n -> PageCounts] : n \in 1..MaxInboxFiles}

InitOcr ==
  /\ vault = <<>>
  /\ index = <<>>
  /\ InitAlloc
  /\ InitSearch
  /\ InitPrefilterHarness
  /\ InitCreate
  /\ InitHarnesses("ocr")
  /\ oc_limit \in OcrLimits
  /\ oc_used = 0
  /\ oc_today = 0
  /\ oc_runs = 0

ocrRest ==
  /\ HarnessesUnchanged("ocr")
  /\ UNCHANGED <<storeVars, allocVars, envVars, searchVars, prefilterVars, createVars>>

\* ocrCurrentFile: checkLimits, then processFile adds the pages
OcrCurrentFile(pages) ==
  /\ oc_runs < MaxOcrRuns
  /\ oc_runs' = oc_runs + 1
  /\ IF checkDailyLimit(pages, oc_limit, oc_used)
     THEN /\ oc_used' = oc_used + pages
          /\ oc_today' = oc_today + pages
     ELSE UNCHANGED <<oc_used, oc_today>>
  /\ UNCHANGED oc_limit
  /\ ocrRest

\* processInboxOCR: first checkLimits for every file of the inbox, then
\* processFile for every file that has passed
ProcessInboxOCR(files) ==
  /\ oc_runs < MaxOcrRuns
  /\ oc_runs' = oc_runs + 1
  /\ LET Allowed(pages) == checkDailyLimit(pages, oc_limit, oc_used)
         filesToProcess == SelectSeq(files, Allowed)
     IN /\ oc_used' = oc_used + SumPages(filesToProcess)
        /\ oc_today' = oc_today + SumPages(filesToProcess)
  /\ UNCHANGED oc_limit
  /\ ocrRest

\* the limit slider: saveSettings, whose initGemini makes a new OCRProcessor
\* with dailyUsage.pagesProcessed = 0
SaveOcrLimit(limit) ==
  /\ oc_runs < MaxOcrRuns
  /\ oc_runs' = oc_runs + 1
  /\ oc_limit' = limit
  /\ oc_used' = 0
  /\ UNCHANGED oc_today
  /\ ocrRest

NextOcr ==
  \/ \E pages \in PageCounts : OcrCurrentFile(pages)
  \/ \E files \in Inboxes : ProcessInboxOCR(files)
  \/ \E limit \in OcrLimits : SaveOcrLimit(limit)

SpecOcr == InitOcr /\ [][NextOcr]_vars

\* ------------------------------------------- initGemini and the counters
\* buildIndex, scanProjectMOCs and the then-callback of initGemini await no
\* I/O: indexNote and parseProjectMOC read the metadata cache synchronously.
\* The whole chain runs as microtasks of the task that called initGemini, and
\* commands, timers and I/O completions are tasks of their own: they run
\* when the chain has ended.
MicrotasksDrained_Yielding == TRUE

MicrotasksDrained == ig_pc = "idle"

seedingRest ==
  /\ HarnessesUnchanged("seeding")
  /\ UNCHANGED <<prefilterVars>>

\* saveSettings: saveData, then initGemini, whose synchronous part replaces
\* the RelatedNoteFinder by a new one with an empty index
SaveSettings(newSettings) ==
  /\ ig_saves < MaxSettingsSaves
  /\ ig_saves' = ig_saves + 1
  /\ settings' = newSettings
  /\ index' = <<>>
  /\ ig_pc' = "building"
  /\ seedingRest
  /\ UNCHANGED <<vault, zkDailyCounter, zkLuhmannCounter, today, now, envVars,
                 searchVars, createVars>>

\* relatedNoteFinder.buildIndex()
IG_BuildIndex ==
  /\ ig_pc = "building"
  /\ index' = buildIndex(vault)
  /\ ig_pc' = "seeding"
  /\ UNCHANGED ig_saves
  /\ seedingRest
  /\ UNCHANGED <<vault, allocVars, envVars, searchVars, createVars>>

\* the then-callback: initializeZKCounters, on the counters as they are
IG_Seed ==
  /\ ig_pc = "seeding"
  /\ LET seeded == initializeZKCounters(index, zkDailyCounter, zkLuhmannCounter)
     IN /\ zkDailyCounter' = seeded.daily
        /\ zkLuhmannCounter' = seeded.luhmann
  /\ ig_pc' = "idle"
  /\ UNCHANGED ig_saves
  /\ seedingRest
  /\ UNCHANGED <<storeVars, settings, today, now, envVars, searchVars, createVars>>

\* plugin start: onLayoutReady has called initGemini, the counters are the
\* field initialisers and the new index is empty
InitSeeding ==
  /\ vault \in {files \in InitialVaults : Len(files) = 2 /\ files[1].path[1] = "1"}
  /\ index = <<>>
  /\ settings = [zkIdType |-> "luhmann", zkMergeThreshold |-> DefaultMergeThreshold]
  /\ zkDailyCounter = [d \in Range(Dates) |-> 0]
  /\ zkLuhmannCounter = 0
  /\ today = Date1
  /\ now = 0
  /\ restarts = 0
  /\ deletes = 0
  /\ calls = 0
  /\ allocated = <<>>
  /\ loadHigh = [d \in Range(Dates) |-> HighestSequence(buildIndex(vault), d)]
  /\ InitSearch
  /\ InitPrefilterHarness
  /\ InitCreate
  /\ InitHarnesses("seeding")
  /\ ig_pc = "building"
  /\ ig_saves = 0

\* the commands and continuations of createZKNotes, and a deletion by the user
SeedingTasks ==
  \/ \E candidates \in Batches : CZ_Call(candidates)
  \/ CZ_Similar
  \/ CZ_SearchFailed
  \/ \E shouldMerge \in BOOLEAN : CZ_Decide(shouldMerge)
  \/ CZ_AfterDecision
  \/ \E writeOk \in BOOLEAN : CZ_Merge(writeOk)
  \/ CZ_Create
  \/ CZ_Related
  \/ CZ_Link
  \/ CZ_Backlink
  \/ CZ_ZkIndex
  \/ CZ_Delay
  \/ \E parsed \in ZkResponses : FR_Scored(parsed) /\ searchStepUnchanged
  \/ FR_Failed /\ searchStepUnchanged
  \/ \E i \in 1..Len(vault) : DeleteZettel(i)

NextSeeding ==
  \/ MicrotasksDrained /\ SeedingTasks
  \/ MicrotasksDrained /\ \E newSettings \in [zkIdType : IdTypes,
                                               zkMergeThreshold : {DefaultMergeThreshold}] :
                             SaveSettings(newSettings)
  \/ IG_BuildIndex
  \/ IG_Seed

SpecSeeding == InitSeeding /\ [][NextSeeding]_vars

\* ------------------------------------------- the merge dialog is closed
\* ZKMergeConfirmModal closed with Escape, the close button or a click outside:
\* onClose empties the content and does not call onResult, so the promise of
\* showMergeConfirmModal stays pending and createZKNotes stays at its await
CZ_Dismiss ==
  /\ cz_pc = "decide"
  /\ cz_pc' = "dismissed"
  /\ UNCHANGED <<storeVars, allocVars, envVars, searchVars, prefilterVars, harnessVars,
                 cz_queue, cz_high, cz_shouldMerge, cz_zkId, cz_fileName, cz_related,
                 cz_k, createdNotes, mergedNotes, linkedCount>>

InitDialog ==
  /\ Init
  /\ Len(vault) = 2
  /\ settings.zkMergeThreshold = DefaultMergeThreshold

NextDialog ==
  \/ SeedingTasks
  \/ CZ_Dismiss

SpecDialog == InitDialog /\ [][NextDialog]_vars

\* ------------------------------------------- Structure Index: topic section
\* the default topic, two Hangul syllables
DefaultTopic == <<"gi", "ta">>

\* `### ${topic}`
TopicHeader(topic) == <<"#", "#", "#", " ">> \o topic

EndsWith(a, b) == Len(a) >= Len(b) /\ SubSeq(a, Len(a) - Len(b) + 1, Len(a)) = b

\* content.includes(topicHeader): the header text occurs in a heading line
HeaderIncluded(topics, topic) ==
  \E i \in 1..Len(topics) : includes(TopicHeader(topics[i].name), TopicHeader(topic))

\* content.match(topicRegex): the heading lines that end with the header text
\* followed by the line break
HeaderMatches(topics, topic) ==
  {i \in 1..Len(topics) : EndsWith(TopicHeader(topics[i].name), TopicHeader(topic))}

\* updateTopicSection
updateTopicSection(topics, newNote, topic) ==
  IF HeaderIncluded(topics, topic)
  THEN IF HeaderMatches(topics, topic) # {}
       THEN LET m == CHOOSE i \in HeaderMatches(topics, topic) :
                       \A j \in HeaderMatches(topics, topic) : i <= j
            IN IF \E k \in 1..Len(topics[m].links) : includes(topics[m].links[k], newNote)
               THEN topics
               ELSE [topics EXCEPT ![m].links =
                       Append(@, ExpandGroups(newNote, TopicGroups))]
       ELSE topics
  ELSE <<[name |-> ExpandGroups(topic, SectionGroups),
          links |-> <<ExpandGroups(newNote, SectionGroups)>>]>> \o topics

\* keywords[0] || the default topic
MainKeyword(keywords) ==
  IF Len(keywords) > 0 /\ keywords[1] # <<>> THEN keywords[1] ELSE DefaultTopic

TopicKeywordLists ==
  {<<>>, <<KwSensor>>, <<KwSensors>>, <<KwIoT, KwSensor>>, <<KwSens, KwIoT>>}

InitTopic ==
  /\ vault = <<>>
  /\ index = <<>>
  /\ InitAlloc
  /\ InitSearch
  /\ InitPrefilterHarness
  /\ InitCreate
  /\ InitHarnesses("topic")
  /\ tp_exists = FALSE
  /\ tp_recent = [File(ZkIndexPath, "zk-index", <<>>) EXCEPT !.links = <<>>]
  /\ tp_topics = <<>>
  /\ tp_note = <<>>
  /\ tp_keywords = <<>>
  /\ tp_runs = 0

\* ZKIndexManager.updateIndex: createIndex, or addNoteToIndex with the recent
\* section and then the topic section
TopicUpdate(newNote, keywords) ==
  /\ tp_runs < MaxTopicRuns
  /\ tp_runs' = tp_runs + 1
  /\ tp_note' = newNote
  /\ tp_keywords' = keywords
  /\ tp_exists' = TRUE
  /\ IF tp_exists
     THEN /\ tp_recent' = updateRecentSection(tp_recent, newNote)
          /\ tp_topics' = updateTopicSection(tp_topics, newNote, MainKeyword(keywords))
     ELSE /\ tp_recent' = [tp_recent EXCEPT !.links = <<newNote>>]
          /\ tp_topics' = <<[name |-> MainKeyword(keywords), links |-> <<newNote>>]>>
  /\ HarnessesUnchanged("topic")
  /\ UNCHANGED <<storeVars, allocVars, envVars, searchVars, prefilterVars, createVars>>

NextTopic ==
  \E i \in 1..MaxTopicNotes, keywords \in TopicKeywordLists :
    TopicUpdate(RecentName(i), keywords)

SpecTopic == InitTopic /\ [][NextTopic]_vars

\* ------------------------------------------------ toLuhmannId: harness
InitLuhmann ==
  /\ vault = <<>>
  /\ index = <<>>
  /\ InitAlloc
  /\ InitSearch
  /\ InitPrefilterHarness
  /\ InitCreate
  /\ InitHarnesses("luhmann")
  /\ lh_n \in 1..MaxCounter
  /\ lh_m \in lh_n..MaxCounter
  /\ lh_ids = <<>>

\* two calls of toLuhmannId, one after the other
LuhmannCall ==
  /\ Len(lh_ids) < 2
  /\ lh_ids' = Append(lh_ids, toLuhmannId(IF lh_ids = <<>> THEN lh_n ELSE lh_m))
  /\ HarnessesUnchanged("luhmann")
  /\ UNCHANGED <<lh_n, lh_m, storeVars, allocVars, envVars, searchVars, prefilterVars,
                 createVars>>

SpecLuhmann == InitLuhmann /\ [][LuhmannCall]_vars

\* -------------------------------------- addBacklinksToZettels: harness
RelatedA == <<"R", "a">>
RelatedB == <<"R", "b">>
RelatedGone == <<"R", "c">>

\* Ra holds a "linked notes" section, Rb holds none, Rc is no document
BacklinkVault ==
  << File(RelatedA, "zettel", <<KwSensor>>),
     [File(RelatedB, "zettel", <<KwSensor>>) EXCEPT !.section = FALSE] >>

NewNoteNames ==
  { <<Date1, "-", "0", "0", "1", " ">> \o sanitizeFileName(c.title) : c \in ZkCandidates }

RelatedLists ==
  LET notes == { [path |-> p, title |-> p, keywords |-> <<KwSensor>>, type |-> "zettel"] :
                   p \in {RelatedA, RelatedB, RelatedGone} }
      items == { [note |-> n, relevance |-> r, matchedKeywords |-> <<KwSensor>>] :
                   n \in notes, r \in {80, 90} }
  IN UNION {[1..n -> items] : n \in 0..2}

InitBacklink ==
  /\ vault = BacklinkVault
  /\ index = buildIndex(vault)
  /\ InitAlloc
  /\ InitSearch
  /\ InitPrefilterHarness
  /\ InitCreate
  /\ InitHarnesses("backlink")
  /\ bl_new \in NewNoteNames
  /\ bl_related \in RelatedLists
  /\ bl_runs = 0

\* one run of the create path's backlink step
BacklinkRun ==
  /\ bl_runs < MaxRuns
  /\ bl_runs' = bl_runs + 1
  /\ vault' = addBacklinksToZettels(vault, bl_new, bl_related)
  /\ HarnessesUnchanged("backlink")
  /\ UNCHANGED <<index, bl_new, bl_related, allocVars, envVars, searchVars,
                 prefilterVars, createVars>>

SpecBacklink == InitBacklink /\ [][BacklinkRun]_vars

\* ---------------------------------- parseRelatedNotesResponse: harness
\* answers of up to MaxParsed well-typed items
ParsedArrays ==
  UNION {[1..n -> [index : {0}, fraction : {0}, relevance : AiRelevanceValues]] :
           n \in 0..MaxParsed}

InitParse ==
  /\ vault = <<>>
  /\ index = <<>>
  /\ InitAlloc
  /\ InitSearch
  /\ InitPrefilterHarness
  /\ InitCreate
  /\ InitHarnesses("parse")
  /\ ps_input \in ParsedArrays
  /\ ps_output = <<>>
  /\ ps_done = FALSE

ParseCall ==
  /\ ~ps_done
  /\ ps_done' = TRUE
  /\ ps_output' = parseRelatedNotesResponse(ps_input)
  /\ HarnessesUnchanged("parse")
  /\ UNCHANGED <<ps_input, storeVars, allocVars, envVars, searchVars, prefilterVars,
                 createVars>>

SpecParse == InitParse /\ [][ParseCall]_vars

\* -------------------------------------------- GeminiClient: rate limiting
Callers == 1..MaxCallers

\* the clock at load: far enough from lastRequestTime = 0 for no first wait
StartClock == MaxDelayMs

RECURSIVE Pow2(_)
Pow2(n) == IF n = 0 THEN 1 ELSE 2 * Pow2(n - 1)

Min(a, b) == IF a <= b THEN a ELSE b

ErrorKinds == {"429", "other"}

InitGatewayWith(budget) ==
  /\ vault = <<>>
  /\ index = <<>>
  /\ InitAlloc
  /\ InitSearch
  /\ InitPrefilterHarness
  /\ InitCreate
  /\ InitHarnesses("gateway")
  /\ gw_clock = StartClock
  /\ gw_lastRequestTime = 0
  /\ gw_minDelayMs = DEFAULT_DELAY_MS
  /\ gw_pc = [c \in Callers |-> "idle"]
  /\ gw_wake = [c \in Callers |-> 0]
  /\ gw_attempt = [c \in Callers |-> 0]
  /\ gw_error = [c \in Callers |-> "none"]
  /\ gw_budget = budget
  /\ gw_prevStart = -1
  /\ gw_invocations = [c \in Callers |-> 0]

gatewayRest ==
  /\ HarnessesUnchanged("gateway")
  /\ UNCHANGED <<storeVars, allocVars, envVars, searchVars, prefilterVars, createVars>>

\* apiCall() is invoked: the request leaves
StartRequest(c) ==
  /\ gw_pc' = [gw_pc EXCEPT ![c] = "inflight"]
  /\ gw_prevStart' = gw_clock
  /\ gw_invocations' = [gw_invocations EXCEPT ![c] = @ + 1]

\* callWithRetry is called: waitForRateLimit up to its await; without a wait
\* lastRequestTime is set and the first attempt starts
GW_Call(c) ==
  /\ gw_pc[c] = "idle"
  /\ gw_budget[c] > 0
  /\ gw_budget' = [gw_budget EXCEPT ![c] = @ - 1]
  /\ gw_attempt' = [gw_attempt EXCEPT ![c] = 0]
  /\ gw_error' = [gw_error EXCEPT ![c] = "none"]
  /\ LET timeSinceLastRequest == gw_clock - gw_lastRequestTime
     IN IF timeSinceLastRequest < gw_minDelayMs
        THEN /\ gw_pc' = [gw_pc EXCEPT ![c] = "waiting"]
             /\ gw_wake' = [gw_wake EXCEPT ![c] =
                              gw_clock + (gw_minDelayMs - timeSinceLastRequest)]
             /\ gw_invocations' = [gw_invocations EXCEPT ![c] = 0]
             /\ UNCHANGED <<gw_lastRequestTime, gw_prevStart>>
        ELSE /\ gw_lastRequestTime' = gw_clock
             /\ gw_pc' = [gw_pc EXCEPT ![c] = "inflight"]
             /\ gw_prevStart' = gw_clock
             /\ gw_invocations' = [gw_invocations EXCEPT ![c] = 1]
             /\ UNCHANGED gw_wake
  /\ UNCHANGED <<gw_clock, gw_minDelayMs>>
  /\ gatewayRest

\* the delay of waitForRateLimit is over: lastRequestTime is set, the first
\* attempt starts
GW_Wake(c) ==
  /\ gw_pc[c] = "waiting"
  /\ gw_clock >= gw_wake[c]
  /\ gw_lastRequestTime' = gw_clock
  /\ StartRequest(c)
  /\ UNCHANGED <<gw_clock, gw_minDelayMs, gw_wake, gw_attempt, gw_error, gw_budget>>
  /\ gatewayRest

\* the API call returns: callWithRetry returns its result
GW_Succeed(c) ==
  /\ gw_pc[c] = "inflight"
  /\ gw_pc' = [gw_pc EXCEPT ![c] = "returned"]
  /\ UNCHANGED <<gw_clock, gw_lastRequestTime, gw_minDelayMs, gw_wake, gw_attempt,
                 gw_error, gw_budget, gw_prevStart, gw_invocations>>
  /\ gatewayRest

GW_Fail_RetryAll(c, kind) ==
  /\ gw_pc[c] = "inflight"
  /\ gw_error' = [gw_error EXCEPT ![c] = kind]
  /\ IF gw_attempt[c] < MAX_RETRIES
     THEN /\ gw_pc' = [gw_pc EXCEPT ![c] = "backoff"]
          /\ gw_wake' = [gw_wake EXCEPT ![c] =
                           gw_clock + INITIAL_BACKOFF_MS * Pow2(gw_attempt[c])]
          /\ gw_minDelayMs' = Min((gw_minDelayMs * 3) \div 2, MaxDelayMs)
     ELSE /\ gw_pc' = [gw_pc EXCEPT ![c] = "threw"]
          /\ UNCHANGED <<gw_wake, gw_minDelayMs>>
  /\ UNCHANGED <<gw_clock, gw_lastRequestTime, gw_attempt, gw_budget, gw_prevStart,
                 gw_invocations>>
  /\ gatewayRest

\* the API call throws: back off and retry on a rate-limit error while attempts
\* are left, rethrow otherwise
GW_Fail(c, kind) ==
  /\ gw_pc[c] = "inflight"
  /\ gw_error' = [gw_error EXCEPT ![c] = kind]
  /\ IF kind = "429" /\ gw_attempt[c] < MAX_RETRIES
     THEN /\ gw_pc' = [gw_pc EXCEPT ![c] = "backoff"]
          /\ gw_wake' = [gw_wake EXCEPT ![c] =
                           gw_clock + INITIAL_BACKOFF_MS * Pow2(gw_attempt[c])]
          /\ gw_minDelayMs' = Min((gw_minDelayMs * 3) \div 2, MaxDelayMs)
     ELSE /\ gw_pc' = [gw_pc EXCEPT ![c] = "threw"]
          /\ UNCHANGED <<gw_wake, gw_minDelayMs>>
  /\ UNCHANGED <<gw_clock, gw_lastRequestTime, gw_attempt, gw_budget, gw_prevStart,
                 gw_invocations>>
  /\ gatewayRest

\* the backoff is over: attempt++ and the next apiCall()
GW_Retry(c) ==
  /\ gw_pc[c] = "backoff"
  /\ gw_clock >= gw_wake[c]
  /\ gw_attempt' = [gw_attempt EXCEPT ![c] = @ + 1]
  /\ StartRequest(c)
  /\ UNCHANGED <<gw_clock, gw_lastRequestTime, gw_minDelayMs, gw_wake, gw_error,
                 gw_budget>>
  /\ gatewayRest

\* the caller has taken the result or the error
GW_Return(c) ==
  /\ gw_pc[c] \in {"returned", "threw"}
  /\ gw_pc' = [gw_pc EXCEPT ![c] = "idle"]
  /\ UNCHANGED <<gw_clock, gw_lastRequestTime, gw_minDelayMs, gw_wake, gw_attempt,
                 gw_error, gw_budget, gw_prevStart, gw_invocations>>
  /\ gatewayRest

Sleeping(c) == gw_pc[c] \in {"waiting", "backoff"}

Due(c) == Sleeping(c) /\ gw_wake[c] <= gw_clock

NextDeadline ==
  CHOOSE t \in {gw_wake[c] : c \in {d \in Callers : Sleeping(d)}} :
    \A c \in Callers : Sleeping(c) => t <= gw_wake[c]

\* time passes up to the next timer
GW_TickToDeadline ==
  /\ \E c \in Callers : Sleeping(c)
  /\ \A c \in Callers : ~Due(c)
  /\ gw_clock' = NextDeadline
  /\ UNCHANGED <<gw_lastRequestTime, gw_minDelayMs, gw_pc, gw_wake, gw_attempt,
                 gw_error, gw_budget, gw_prevStart, gw_invocations>>
  /\ gatewayRest

\* time passes while no timer is due
GW_TickElapse ==
  /\ \A c \in Callers : ~Due(c)
  /\ gw_clock + DEFAULT_DELAY_MS <= MaxClock
  /\ \A c \in Callers : Sleeping(c) => gw_clock + DEFAULT_DELAY_MS <= gw_wake[c]
  /\ gw_clock' = gw_clock + DEFAULT_DELAY_MS
  /\ UNCHANGED <<gw_lastRequestTime, gw_minDelayMs, gw_pc, gw_wake, gw_attempt,
                 gw_error, gw_budget, gw_prevStart, gw_invocations>>
  /\ gatewayRest

NextGateway ==
  \/ \E c \in Callers : GW_Call(c)
  \/ \E c \in Callers : GW_Wake(c)
  \/ \E c \in Callers : GW_Succeed(c)
  \/ \E c \in Callers, kind \in ErrorKinds : GW_Fail(c, kind)
  \/ \E c \in Callers : GW_Retry(c)
  \/ \E c \in Callers : GW_Return(c)
  \/ GW_TickToDeadline
  \/ GW_TickElapse

\* operations running concurrently, each calling the gateway once
InitGateway == InitGatewayWith([c \in Callers |-> 1])

SpecGateway == InitGateway /\ [][NextGateway]_vars

\* one operation calling the gateway twice; timers fire and every request is answered
InitGatewayOne == InitGatewayWith([c \in Callers |-> IF c = 1 THEN 2 ELSE 0])

SpecGatewayFair ==
  /\ InitGatewayOne
  /\ [][NextGateway]_vars
  /\ WF_vars(GW_Wake(1))
  /\ WF_vars(GW_Retry(1))
  /\ WF_vars(GW_TickToDeadline)
  /\ WF_vars(GW_Succeed(1) \/ \E kind \in ErrorKinds : GW_Fail(1, kind))

\* ------------------------------------------- related-note search on its own
SearchDocs == {1, 2, 6, 7, 8}

InitSearchOnly ==
  /\ \E S \in SUBSET SearchDocs : vault = LibraryFiles(S)
  /\ index = buildIndex(vault)
  /\ InitAlloc
  /\ InitSearch
  /\ InitPrefilterHarness
  /\ InitCreate
  /\ InitHarnesses("none")

searchOnlyUnchanged ==
  UNCHANGED <<storeVars, allocVars, envVars, prefilterVars, createVars, harnessVars>>

NextSearch ==
  \/ \E excludePath \in ExcludePaths : FR_FindRelated(excludePath) /\ searchOnlyUnchanged
  \/ \E keywords \in Queries : FR_KeywordsExtracted(keywords) /\ searchOnlyUnchanged
  \/ \E keywords \in Queries, excludePath \in ExcludePaths :
       FR_FindRelatedZettels(keywords, excludePath) /\ searchOnlyUnchanged
  \/ \E parsed \in AiResponses : FR_Scored(parsed) /\ searchOnlyUnchanged
  \/ FR_Failed /\ searchOnlyUnchanged
  \/ FR_Return /\ searchOnlyUnchanged

SpecSearch == InitSearchOnly /\ [][NextSearch]_vars

Spec == Init /\ [][Next]_vars

\* ================================================================ properties

\* what the Prefilter scanned in the recorded call
PrefilterPopulation ==
  IF pf_called.kind = "all" THEN index ELSE getZettelIndex(index)

\* eligibility of a record, stated on the record's and the query's raw keywords
Eligible(note, keywords, excludePath) ==
  /\ (excludePath = NoPath \/ note.path # excludePath)
  /\ Len(note.keywords) >= 1
  /\ \E i \in 1..Len(note.keywords), j \in 1..Len(keywords) :
       LET a == toLowerCase(note.keywords[i])
           b == toLowerCase(keywords[j])
       IN includes(a, b) \/ includes(b, a)

EligibleRecords ==
  {i \in 1..Len(PrefilterPopulation) :
     Eligible(PrefilterPopulation[i], pf_called.keywords, pf_called.excludePath)}

\* C8: the Prefilter (filterByKeywords and filterZettelsByKeywords) returns at
\* most 10 candidates, each with at least one matched keyword, ordered by
\* non-increasing number of matched keywords.
C8_PrefilterBounded ==
  pf_called.kind # "none" =>
    /\ Len(pf_result) <= 10
    /\ \A k \in 1..Len(pf_result) : Len(pf_result[k].matchedKeywords) >= 1
    /\ \A k \in 1..(Len(pf_result) - 1) :
         Len(pf_result[k].matchedKeywords) >= Len(pf_result[k + 1].matchedKeywords)

\* C8 witness: more than 10 records are eligible, 10 are returned, and the
\* match counts of the first and the last differ.
C8_Witness ==
  /\ pf_called.kind = "all"
  /\ Cardinality(EligibleRecords) > 10
  /\ Len(pf_result) = 10
  /\ Len(pf_result[1].matchedKeywords) > Len(pf_result[10].matchedKeywords)

\* C9: a record is a Prefilter candidate only if it is eligible (path not the
\* excluded one, at least one stored keyword, a stored and a query keyword that
\* are case-insensitively substrings of one another), and when at most 10
\* records are eligible the Prefilter returns exactly the eligible records.
C9_PrefilterEligible ==
  pf_called.kind # "none" =>
    LET eligible == {PrefilterPopulation[i].path : i \in EligibleRecords}
        returned == {pf_result[k].note.path : k \in 1..Len(pf_result)}
    IN /\ returned \subseteq eligible
       /\ Cardinality(returned) = Len(pf_result)
       /\ Cardinality(eligible) <= 10 => returned = eligible

\* C9 witness: three documents, two of them with keyword "sensor"; the query
\* ["sensor"] excluding one of the two returns exactly the other.
C9_Witness ==
  /\ pf_called = [kind |-> "all", keywords |-> <<KwSensor>>, excludePath |-> LibPath(1)]
  /\ {index[i].path : i \in 1..Len(index)} = {LibPath(1), LibPath(8), LibPath(10)}
  /\ Len(pf_result) = 1
  /\ pf_result[1].note.path = LibPath(10)

\* C6: toLuhmannId is injective on positive counters, and the same counter
\* gives the same identifier on both calls.
C6_LuhmannInjective ==
  Len(lh_ids) = 2 => ((lh_n = lh_m) <=> (lh_ids[1] = lh_ids[2]))

\* C6 witness: two different counters beyond the first carry of both levels
\* (9 digits, 26 letters) have been converted to identifiers of three symbols.
C6_Witness ==
  /\ Len(lh_ids) = 2
  /\ lh_n # lh_m
  /\ Len(lh_ids[1]) = 3
  /\ Len(lh_ids[2]) = 3

\* the stage orders one search may have run so far
StageOrders ==
  { <<>>,
    <<"extractKeywords">>,
    <<"extractKeywords", "prefilter">>,
    <<"extractKeywords", "prefilter", "scoreRelatedness">>,
    <<"extractKeywords", "prefilter", "scoreRelatedness", "mapIndices">>,
    <<"prefilter">>,
    <<"prefilter", "scoreRelatedness">>,
    <<"prefilter", "scoreRelatedness", "mapIndices">> }

\* C10: a search runs keyword extraction, Prefilter, relatedness scoring and
\* index mapping in this order; with an empty keyword list it returns an empty
\* result without Prefilter or scoring, and when the Prefilter yields no
\* candidate it returns an empty result without scoring.
C10_StageOrder ==
  /\ fr_trace \in StageOrders
  /\ (fr_pc = "done" /\ Len(fr_keywords) = 0) =>
       /\ fr_results = <<>>
       /\ "prefilter" \notin Range(fr_trace)
       /\ "scoreRelatedness" \notin Range(fr_trace)
  /\ (fr_pc = "done" /\ Len(fr_candidates) = 0) =>
       /\ fr_results = <<>>
       /\ "scoreRelatedness" \notin Range(fr_trace)
  /\ "scoreRelatedness" \in Range(fr_trace) =>
       (Len(fr_keywords) > 0 /\ Len(fr_candidates) > 0)
  /\ Len(fr_results) > 0 => "mapIndices" \in Range(fr_trace)

\* C10 witness: a search with keywords whose Prefilter found no candidate has
\* returned after the Prefilter stage.
C10_Witness ==
  /\ fr_pc = "done"
  /\ Len(fr_keywords) > 0
  /\ fr_candidates = <<>>
  /\ fr_trace = <<"extractKeywords", "prefilter">>


\* ------------------------------------------------- properties: allocator
\* the identifier a Zettel file name starts with: the text before the first space
RECURSIVE IdOf(_)
IdOf(path) ==
  IF path = <<>> \/ Head(path) = " " THEN <<>>
  ELSE <<Head(path)>> \o IdOf(Tail(path))

ZettelIds(idx) == { IdOf(idx[i].path) : i \in {j \in 1..Len(idx) : IsZettel(idx[j])} }

\* C1: under the date-sequence and the Luhmann schemes, the identifier
\* generateZKId has just returned is the identifier of no Zettel-kind note
\* present in the Note Index.
C1_NeverReissued ==
  (cz_pc = "creating" /\ settings.zkIdType \in {"date-sequence", "luhmann"})
    => cz_zkId \notin ZettelIds(index)

DateSeqId(date, seq) == <<date, "-">> \o PadStart(NumToString(seq), SeqWidth)

\* C5: date-sequence scheme: of two consecutive allocations on one date the
\* second carries the sequence of the first plus one; the first allocation after
\* a load on date D, where the index held the highest sequence m for D, is
\* D-(m+1), the sequence padded to 3 digits.
C5_DateSequence ==
  settings.zkIdType = "date-sequence" =>
    \A i \in 1..Len(allocated) :
      LET date == allocated[i][1]
      IN IF i = 1
         THEN allocated[i] = DateSeqId(date, loadHigh[date] + 1)
         ELSE allocated[i - 1][1] = date =>
                allocated[i] = DateSeqId(date, SequenceOf(allocated[i - 1], date) + 1)

\* ------------------------------------------------ properties: merge gate
MaxRelevance(results) ==
  CHOOSE m \in {results[i].relevance : i \in 1..Len(results)} :
    \A i \in 1..Len(results) : results[i].relevance <= m

\* C3: the merge decision is open for a candidate exactly when the
\* highest-relevance result of the first search reaches zkMergeThreshold, and
\* the note offered is a result of that highest relevance.
C3_MergeGate ==
  /\ cz_pc = "decide" =>
       /\ fr_results # <<>>
       /\ MaxRelevance(fr_results) >= settings.zkMergeThreshold
       /\ \E i \in 1..Len(fr_results) : fr_results[i] = cz_high
       /\ cz_high.relevance = MaxRelevance(fr_results)
  /\ (cz_pc = "creating" /\ cz_high = NoNote) =>
       \/ fr_results = <<>>
       \/ MaxRelevance(fr_results) < settings.zkMergeThreshold

\* a decision is open although a lower result came first in the answer, the
\* threshold being met exactly by the lower one
C3_Witness ==
  /\ cz_pc = "decide"
  /\ Len(fr_results) = 2
  /\ fr_results[2].relevance = settings.zkMergeThreshold
  /\ cz_high = fr_results[1]
  /\ cz_high.relevance > settings.zkMergeThreshold

\* C4: while the merge decision is pending no step allocates an identifier,
\* creates or modifies a document, or moves on to a later candidate; the
\* allocation for a candidate with a merge target follows the resolved decision.
C4_BlockedWhilePending ==
  [][ /\ cz_pc = "decide" =>
           UNCHANGED <<vault, index, zkDailyCounter, zkLuhmannCounter, allocated,
                       cz_zkId, cz_fileName, cz_queue, createdNotes, mergedNotes>>
      /\ (allocated' # allocated /\ cz_high' # NoNote) => cz_pc = "resolved"
    ]_vars

\* the decision of the first of two candidates resolved to "create", and the
\* identifier has been allocated
C4_Witness ==
  /\ cz_pc = "creating"
  /\ cz_high # NoNote
  /\ ~cz_shouldMerge
  /\ Len(cz_queue) = 2
  /\ Len(allocated) = 1

\* ------------------------------------------------------ properties: links
\* C2: when the create path of a candidate is complete, for every related
\* Zettel of the second search the new note's document links to it and its
\* document links to the new note.
C2_Bidirectional ==
  cz_pc = "delay" =>
    \A i \in 1..Len(cz_related) :
      LET related == cz_related[i].note.path
      IN /\ Exists(vault, cz_fileName)
         /\ HasLinkTo(FileAt(vault, cz_fileName), related)
         /\ Exists(vault, related)
         /\ HasLinkTo(FileAt(vault, related), cz_fileName)

LinkEntries(file, name) == Cardinality({i \in 1..Len(file.links) : file.links[i] = name})

\* C7: after two runs of addBacklinksToZettels with the same new note and the
\* same related notes, every related document holds exactly one link entry to
\* the new note.
C7_BacklinkOnce ==
  bl_runs = 2 =>
    \A i \in 1..Len(bl_related) :
      Exists(vault, bl_related[i].note.path) =>
        LinkEntries(FileAt(vault, bl_related[i].note.path), bl_new) = 1


\* ------------------------------------------------ properties: index mapping
ValidPosition(item, candidates) ==
  item.index >= 0 /\ item.index < Len(candidates) /\ item.fraction = 0

\* C11: the mapping of the classifier's results raises no error, every
\* RelatedNote it returns is a record of the candidate list, and an answer
\* whose indices are all invalid positions yields zero results.
C11_InvalidIndexDiscarded ==
  [][ (fr_pc = "scoring" /\ fr_trace' = Append(fr_trace, "mapIndices")) =>
        /\ fr_pc' = "done"
        /\ \A i \in 1..Len(fr_results') :
             \E j \in 1..Len(fr_candidates) :
               fr_results'[i].note = fr_candidates[j].note
        /\ \A parsed \in AiResponses :
             ( /\ FR_Scored(parsed)
               /\ \A i \in 1..Len(parsed) : ~ValidPosition(parsed[i], fr_candidates) )
               => fr_results' = <<>>
    ]_vars


\* ------------------------------------------- properties: relatedness scores
\* C12: the scores the gateway returns all have relevance >= 0.5, are in
\* non-increasing order of relevance, and number at most 5.
C12_ScoresFiltered ==
  ps_done =>
    /\ \A i \in 1..Len(ps_output) : ps_output[i].relevance >= MinRelevance
    /\ \A i \in 1..(Len(ps_output) - 1) :
         ps_output[i].relevance >= ps_output[i + 1].relevance
    /\ Len(ps_output) <= MaxRelated

\* six scores of at least 0.5 given in rising order came back as five, falling
C12_Witness ==
  /\ ps_done
  /\ Len(ps_input) = 6
  /\ \A i \in 1..6 : ps_input[i].relevance >= MinRelevance
  /\ ps_input[1].relevance < ps_input[6].relevance
  /\ Len(ps_output) = 5
  /\ ps_output[1].relevance > ps_output[5].relevance


\* ------------------------------------------------ properties: rate limiting
\* C13: every API request starts at least minDelayMs after the start of the
\* request before it, and never while another request is in flight.
C13_Serialized ==
  [][ \A c \in Callers :
        (gw_pc[c] # "inflight" /\ gw_pc'[c] = "inflight") =>
          /\ gw_prevStart = -1 \/ gw_clock - gw_prevStart >= gw_minDelayMs
          /\ \A d \in Callers \ {c} : gw_pc[d] # "inflight"
    ]_vars

BackoffMs(attempt) ==
  CASE attempt = 0 -> 2000
    [] attempt = 1 -> 4000
    [] attempt = 2 -> 8000
    [] OTHER -> 0

\* C14: callWithRetry retries only on a rate-limit error, after a wait of 2 s,
\* 4 s, 8 s; it invokes the API at most 4 times; an error that is no rate-limit
\* error, or the failure of the last attempt, is rethrown; and every call that
\* has started returns or throws.
C14_RetryPolicy ==
  /\ [][ \A c \in Callers :
           /\ (gw_pc[c] = "inflight" /\ gw_pc'[c] = "backoff") =>
                /\ gw_error'[c] = "429"
                /\ gw_attempt[c] < MAX_RETRIES
                /\ gw_wake'[c] = gw_clock + BackoffMs(gw_attempt[c])
           /\ (gw_pc[c] = "backoff" /\ gw_pc'[c] = "inflight") =>
                gw_clock >= gw_wake[c]
           /\ (gw_pc[c] = "inflight" /\ gw_pc'[c] \in {"backoff", "threw"}) =>
                /\ gw_error'[c] \in ErrorKinds
                /\ (gw_error'[c] # "429" \/ gw_invocations[c] = MAX_RETRIES + 1)
                     <=> gw_pc'[c] = "threw"
           /\ gw_invocations'[c] <= MAX_RETRIES + 1
       ]_vars
  /\ \A c \in Callers :
       (gw_pc[c] \in {"waiting", "inflight", "backoff"})
         ~> (gw_pc[c] \in {"returned", "threw"})

\* three rate-limit errors were retried after 2, 4 and 8 seconds and the fourth
\* was rethrown
C14_Witness ==
  /\ gw_pc[1] = "threw"
  /\ gw_error[1] = "429"
  /\ gw_invocations[1] = 4
  /\ gw_attempt[1] = 3
  /\ gw_clock >= StartClock + 14000


\* ------------------------------------------------ properties: bulk operations
\* C15: a failure while one candidate of createZKNotes is processed does not
\* end the batch: the invocation never stops with candidates after the
\* failing one left unattempted.
C15_BatchContinues ==
  ~(cz_pc = "failed" /\ Len(cz_queue) > 1)


\* ------------------------------------------------ properties: index and writes
RecordOf(idx, path) == idx[CHOOSE i \in 1..Len(idx) : idx[i].path = path]

IndexHas(idx, path) == \E i \in 1..Len(idx) : idx[i].path = path

\* C16: outside a rebuild, whenever a step changes the Note Index a document
\* was written in the same step, and every record that is new or changed is
\* the record of the document now stored at its path; a merge, a creation or
\* a keyword save whose write fails leaves the Note Index as it was.
C16_IndexAfterWrite ==
  [][restarts' = restarts /\ index' # index
       => /\ vault' # vault
          /\ \A i \in 1..Len(index') :
               (~IndexHas(index, index'[i].path)
                  \/ RecordOf(index, index'[i].path) # index'[i])
                 => /\ Exists(vault', index'[i].path)
                    /\ index'[i] = indexNote(FileAt(vault', index'[i].path))]_vars

\* a merge whose write failed: the target still lacks the addition and its
\* record is still the record of the stored document
C16_Witness ==
  /\ cz_pc = "failed"
  /\ cz_shouldMerge
  /\ Exists(vault, cz_high.note.path)
  /\ FileAt(vault, cz_high.note.path).additions = <<>>
  /\ IndexHas(index, cz_high.note.path)
  /\ RecordOf(index, cz_high.note.path) = indexNote(FileAt(vault, cz_high.note.path))

\* ------------------------------------------------ properties: merged keywords
NewKeywords(previous, candidateKeywords) ==
  LET Absent(k) == k \notin Range(previous)
  IN SelectSeq(Dedupe(candidateKeywords, <<>>), Absent)

\* C17: after a merge the target's keyword list is its previous list followed
\* by the candidate's keywords that were not in it, without repetition, and a
\* second merge of the same candidate leaves the list as it was.
C17_MergedKeywords ==
  mg_runs >= 1 =>
    /\ KeywordList(mg_doc) = mg_prev \o NewKeywords(mg_prev, mg_cand)
    /\ NoRepeat(KeywordList(mg_doc))
    /\ (mg_runs = 2 /\ mg_cand = mg_prevCand) => KeywordList(mg_doc) = mg_prev

\* the same for the targets whose keywords stand between brackets
C17_FlowTargets ==
  (mg_runs >= 1 /\ mg_doc.style = "flow") =>
    /\ KeywordList(mg_doc) = mg_prev \o NewKeywords(mg_prev, mg_cand)
    /\ NoRepeat(KeywordList(mg_doc))
    /\ (mg_runs = 2 /\ mg_cand = mg_prevCand) => KeywordList(mg_doc) = mg_prev

\* ------------------------------------------------ properties: index and store
\* C18: every path the Note Index holds names a document of the store; the
\* record of a deleted document is gone from the index.
C18_IndexPathsExist ==
  \A i \in 1..Len(index) : Exists(vault, index[i].path)

\* ------------------------------------------------ properties: rebuild
\* C19: after buildIndex the index holds exactly one record per markdown
\* document of the store, in the order of the store; a document whose
\* frontmatter is absent or malformed has a record with empty keywords and no
\* type, and every other document the record of its frontmatter.
C19_RebuildComplete ==
  rb_done =>
    /\ Len(index) = Len(vault)
    /\ \A i \in 1..Len(vault) :
         /\ index[i].path = vault[i].path
         /\ IF vault[i].frontmatter = "parsed"
            THEN index[i].keywords = vault[i].keywords /\ index[i].type = vault[i].type
            ELSE index[i].keywords = <<>> /\ index[i].type = "none"

\* a rebuild over a store with a malformed document between two good ones
C19_Witness ==
  /\ rb_done
  /\ Len(vault) = MaxFiles
  /\ vault[2].frontmatter = "malformed"
  /\ vault[2].keywords # <<>>
  /\ vault[1].frontmatter = "parsed"
  /\ vault[3].frontmatter = "parsed"
  /\ index[3].keywords = <<KwSensor>>
  /\ index[2].keywords = <<>>

\* ------------------------------------------------ properties: project hubs
HubsOf(project) == {i \in 1..Len(mc_docs) : mc_docs[i].project = project}

\* C20: createProjectMOC returns null when the registry already holds a hub
\* of the project, and the store never holds two hub documents of one
\* project.
C20_OneHubPerProject ==
  /\ mc_held => mc_result = "null"
  /\ \A project \in Projects : Cardinality(HubsOf(project)) <= 1

\* the part that holds: a second creation in the same folder returns null
\* and the folder holds one hub document of the project
C20_OneHubPerPath ==
  \A i, j \in 1..Len(mc_docs) : mc_docs[i].path = mc_docs[j].path => i = j

\* ------------------------------------------------ properties: hub links
HubLinkEntries(hub, name) == Cardinality({i \in 1..Len(hub.links) : hub.links[i] = name})

\* C21: after two addNoteToMOC calls for the same note and a known project
\* the hub holds exactly one link to the note, and the second call has not
\* written to the document.
C21_LinkOnce ==
  (Len(ml_returns) = 2 /\ ml_known /\ ml_hub.exists) =>
    /\ HubLinkEntries(ml_hub, ml_note) = 1
    /\ ~ml_wrote[2]

\* an unknown project or a missing hub document: false is returned and
\* nothing is written
C21_UnknownProject ==
  \A i \in 1..Len(ml_returns) :
    (~ml_known \/ ~ml_hub.exists) => ~ml_returns[i] /\ ~ml_wrote[i]

\* for a note name without "$" and a document whose section heading is
\* followed by a line break (or absent) the two calls leave one link
C21_PlainNames ==
  (Len(ml_returns) = 2 /\ ml_known /\ ml_hub.exists /\ ml_note = TitleA
     /\ ml_hub.section = "open") =>
    /\ HubLinkEntries(ml_hub, ml_note) = 1
    /\ ~ml_wrote[2]

\* ------------------------------------------------ properties: recent section
OtherEntries(items, name) ==
  LET Differs(item) == item # name
  IN SelectSeq(items, Differs)

\* C22: after an update the recent section holds at most 10 entries, none
\* twice, the added note first, and behind it the entries of the other notes
\* as they were, the last of them dropped only when the cap is exceeded.
C22_RecentSection ==
  rc_adds >= 1 =>
    /\ Len(rc_file.links) <= RecentLimit
    /\ NoRepeat(rc_file.links)
    /\ rc_file.links = SliceTo(<<rc_last>> \o OtherEntries(rc_prev, rc_last), RecentLimit)

\* what the code does keep: the cap, no repetition, the new note first
C22_CapAndOrder ==
  rc_adds >= 1 =>
    /\ Len(rc_file.links) <= RecentLimit
    /\ NoRepeat(rc_file.links)
    /\ rc_file.links[1] = rc_last

\* ------------------------------------------------ properties: debounce
\* C23: no path is classified less than 3 seconds after its latest change
\* event.
C23_QuietBeforeClassify ==
  \A i \in 1..Len(db_classified) :
    db_classified[i].time - db_lastEvent[db_classified[i].path] >= DebounceWait

\* a path is taken out of the pending set only 3 seconds or more after the
\* time stamp of its entry
C23_TakenAfterWait ==
  [][\A i \in 1..Len(db_pending) :
       ~PendingHas(db_pending', db_pending[i].path)
         => db_clock - db_pending[i].stamp >= DebounceWait]_vars

\* ------------------------------------------------ properties: malformed output
Unparseable(text) == text.kind \in {"prose", "broken"}

C25_DailyLimit == oc_used <= oc_limit

\* single-file commands alone keep the counter within the limit
C25_SingleFiles ==
  [][(\E pages \in PageCounts : OcrCurrentFile(pages)) /\ oc_used <= oc_limit
       => oc_used' <= oc_limit']_vars

\* ------------------------------------------------ properties: seeded counters
\* the counters are at least what initializeZKCounters gives for the index
CountersSeeded ==
  LET seeded == initializeZKCounters(index, [d \in Range(Dates) |-> 0], 0)
  IN /\ \A d \in Range(Dates) : zkDailyCounter[d] >= seeded.daily[d]
     /\ zkLuhmannCounter >= seeded.luhmann

\* C26: no identifier is allocated while an initGemini chain is under way,
\* and the step that seeds the counters works on an index built from the
\* whole store and leaves the counters at or above its seeds.
C26_SeededBeforeAllocate ==
  [][/\ allocated' # allocated => ig_pc = "idle"
     /\ ig_pc = "seeding" /\ ig_pc' = "idle"
          => index = buildIndex(vault) /\ CountersSeeded']_vars

\* an identifier has been allocated after a settings save and its reseeding
C26_Witness ==
  /\ ig_saves = 1
  /\ ig_pc = "idle"
  /\ allocated # <<>>
  /\ cz_pc = "creating"

\* ------------------------------------------------ properties: merged candidates
\* C27: a candidate enters the list of merged candidates only in a step that
\* appends its body to a document of the store.
C27_MergedAppended ==
  [][Len(mergedNotes') > Len(mergedNotes)
       => \E i \in 1..Len(vault') :
            /\ Exists(vault, vault'[i].path)
            /\ vault'[i].additions =
                 Append(FileAt(vault, vault'[i].path).additions,
                        mergedNotes'[Len(mergedNotes')])]_vars

\* ------------------------------------------------ properties: the merge dialog
\* C28: when the merge dialog has been closed the decision is resolved:
\* createZKNotes is never left waiting on a dialog that is no longer open.
C28_DismissalResolves ==
  cz_pc # "dismissed"

\* the two buttons resolve the decision and the candidates that follow are
\* processed
C28_ButtonsResolve ==
  [][cz_pc = "decide" /\ cz_pc' # "dismissed" => cz_pc' = "resolved"]_vars

\* ------------------------------------------------ properties: topic section
\* links to the note under the headings named topic
TopicLinks(topic, note) ==
  {p \in (1..Len(tp_topics)) \X (1..RecentLimit) :
     /\ tp_topics[p[1]].name = topic
     /\ p[2] <= Len(tp_topics[p[1]].links)
     /\ tp_topics[p[1]].links[p[2]] = note}

\* C29: after updateIndex the topic section holds exactly one link to the note
\* under the heading of its first keyword, or of the default topic.
C29_TopicLinkOnce ==
  tp_runs > 0 => Cardinality(TopicLinks(MainKeyword(tp_keywords), tp_note)) = 1

\* the same, for a topic that no heading of the document merely contains
C29_ExactHeadings ==
  /\ tp_runs > 0
  /\ \A i \in 1..Len(tp_topics) :
       includes(TopicHeader(tp_topics[i].name), TopicHeader(MainKeyword(tp_keywords)))
         => tp_topics[i].name = MainKeyword(tp_keywords)
  => Cardinality(TopicLinks(MainKeyword(tp_keywords), tp_note)) = 1

\* ------------------------------------------------ properties: Luhmann sequence
\* a digit at the odd places and a letter at the even places, counted from
\* the given end
Alternates(id, fromEnd) ==
  \A i \in 1..Len(id) :
    LET place == IF fromEnd THEN Len(id) - i + 1 ELSE i
    IN IsDigit(id[i]) <=> place % 2 = 1

\* C30: the identifiers follow the documented sequence 1, 1a, 1b, ...: they
\* start with a digit and go on with letters and digits in turn.
C30_LuhmannSequence ==
  Len(lh_ids) >= 1 =>
    /\ lh_n = 1 => lh_ids[1] = <<"1">>
    /\ lh_n = 2 => lh_ids[1] = <<"1", "a">>
    /\ lh_n = 3 => lh_ids[1] = <<"1", "b">>
    /\ Alternates(lh_ids[1], FALSE)

\* what toLuhmannId gives: the counters up to 9 are the digits themselves, and
\* digits and letters take turns from the last symbol backwards
C30_DigitsFirst ==
  Len(lh_ids) >= 1 =>
    /\ lh_n <= 9 => lh_ids[1] = NumToString(lh_n)
    /\ Alternates(lh_ids[1], TRUE)
================================================================
